---- MODULE Spec2Model ----
(***************************************************************************)
(* Campus Life Planner: a model of the storage adapter (storage.js, kept   *)
(* in src/unnamed/part_001), of the import/export envelope and of the task *)
(* collection the view layer (src/scripts/ui.js) installs in the state     *)
(* container.                                                              *)
(*                                                                         *)
(* JavaScript values are modelled as tagged records so that typeof, the    *)
(* comparisons of validateTaskStructure and the conversions of             *)
(* JSON.stringify / JSON.parse are computed the way the engine computes    *)
(* them.  A property that is absent and a property that is undefined are   *)
(* the same thing to every piece of code modelled here (hasOwnProperty is  *)
(* always followed by a test against undefined, JSON.stringify drops       *)
(* both), so an object is a total function over its field names with       *)
(* Undefined marking the absent ones.                                      *)
(***************************************************************************)
EXTENDS Integers, Sequences, FiniteSets, TLC

VARIABLES
    localData,      \* localStorage[STORAGE_KEY]
    sessionBackup,  \* sessionStorage[STORAGE_KEY + '_backup']
    localSettings,  \* localStorage[SETTINGS_KEY]
    call,           \* the storage call that ran last, with its outcome
    fileText,       \* the text handed to importData
    exported,       \* the arguments of the exportData call that wrote fileText
    result,         \* what importData returned for fileText
    clock,          \* Date.now(), in milliseconds
    generated,      \* the ids generateId has returned, oldest first
    tasks,          \* the tasks slice of the state container
    settings,       \* the settings slice
    editingTaskId,  \* the editingTaskId slice: null, or the id being edited
    message,        \* which transient message slice was set last
    showModal,      \* the showModal slice: the confirmation modal is open
    modalConfirmCallback, \* UIManager.modalConfirmCallback
    submission,     \* the last form submission: did the form pass, and the
                    \* task actions handleFormSubmit dispatched for it
    email,          \* the argument of isValidEmail
    emailValid,     \* what isValidEmail returned for it
    notifier,       \* the search slices of the state container, the search
                    \* controls of the page, and the notifications of the
                    \* container that are running or waiting
    viewed,         \* the last rendering method that ran: the array
                    \* getState('tasks') returned to it, and that array
                    \* when the method returned
    markup,         \* the last markup a rendering method assigned to
                    \* innerHTML: the task it rendered and, in order, the
                    \* text it put in for each task field
    search,         \* the search of the tasks page: the query and tag
                    \* filter in force, UIManager.currentSearchResults, the
                    \* count shown, and the tasks of the grid
    confirmClicks,  \* how often the confirm button of the open modal was
                    \* activated
    cap,            \* the cap input: the text typed when update-cap was
                    \* last clicked, and the text the field shows
    emailError,     \* what getEmailValidationError returned for email
    emailField,     \* the email field: its value, its class and the text
                    \* of its error element
    toast           \* the transient messages: the time, the error and
                    \* success slices with the time each was set, and the
                    \* timers pending

storageVars == <<localData, sessionBackup, localSettings, call>>
importVars  == <<fileText, exported, result>>
idVars      == <<clock, generated>>
appVars     == <<tasks, settings, editingTaskId, message>>
auxVars     == <<notifier, viewed, markup, search, confirmClicks, cap, emailError, emailField, toast>>
pureVars    == <<email, emailValid, auxVars>>
viewVars    == <<showModal, modalConfirmCallback, submission, pureVars>>
vars == <<storageVars, importVars, idVars, appVars, viewVars>>

-----------------------------------------------------------------------------
(* Bounds of the model *)

\* longest task collection handed to saveTasks or kept in a store
MaxTasks == 2
\* longest tasks array of an import file
MaxEntries == 2
\* number of generateId calls that are followed
MaxIds == 3
\* last millisecond the clock reaches
MaxClock == 1
\* longest task collection the add action grows
MaxListed == 2
\* longest local part and longest domain of the generated email addresses
MaxLocalPart == 2
MaxDomainPart == 5

-----------------------------------------------------------------------------
(* JavaScript primitive values *)

Undefined == [t |-> "undefined", n |-> 0, s |-> ""]
Null      == [t |-> "null", n |-> 0, s |-> ""]
NaN       == [t |-> "NaN", n |-> 0, s |-> ""]
Infinity  == [t |-> "Infinity", n |-> 0, s |-> ""]
Num(k)    == [t |-> "number", n |-> k, s |-> ""]
Str(x)    == [t |-> "string", n |-> 0, s |-> x]
Bool(b)   == [t |-> "boolean", n |-> IF b THEN 1 ELSE 0, s |-> ""]

\* the typeof operator: NaN and Infinity are numbers, null is an object
TypeOf(v) ==
    CASE v.t \in {"number", "NaN", "Infinity"} -> "number"
      [] v.t \in {"null", "array"} -> "object"
      [] OTHER -> v.t

\* v < 0 for a value whose typeof is number: false for NaN and for Infinity
LessThanZero(v) == v.t = "number" /\ v.n < 0

\* what JSON.stringify writes for a primitive and JSON.parse reads back:
\* a non-finite number is written as null
JsonPrim(v) == IF v.t \in {"NaN", "Infinity"} THEN Null ELSE v

-----------------------------------------------------------------------------
(* Tasks and entries of a task array *)

TaskFields ==
    {"id", "title", "dueDate", "duration", "tag", "description",
     "createdAt", "updatedAt", "completed", "hasOwnProperty"}

NoFields == [k \in TaskFields |-> Undefined]

\* an object entry with the given own properties
Obj(f) == [t |-> "object", f |-> f]
\* an entry that is no plain object: null, a number, a string, an array
NonObj(tag) == [t |-> tag, f |-> NoFields]

MkTask(id, title, dueDate, duration, tag) ==
    Obj([NoFields EXCEPT !["id"] = id, !["title"] = title,
                         !["dueDate"] = dueDate, !["duration"] = duration,
                         !["tag"] = tag])

TaskA == MkTask(Str("a"), Str("Essay"), Str("2025-03-01"), Num(2), Str("Homework"))
TaskB == MkTask(Str("b"), Str("Lab"), Str("2025-03-02"), Num(0), Str("Lab"))
SeedTask == MkTask(Str("seed"), Str("Sample"), Str("2025-01-01"), Num(1), Str("Sample"))

\* a task whose duration was read from a literal such as 1e999, which
\* JSON.parse turns into Infinity
TaskHuge == MkTask(Str("h"), Str("Thesis"), Str("2025-06-01"), Infinity, Str("Project"))
\* entries validateTaskStructure has to turn down
NullEntry        == NonObj("null")
MissingTitle     == MkTask(Str("m"), Undefined, Str("2025-03-03"), Num(1), Str("Lab"))
NegativeDuration == MkTask(Str("n"), Str("Quiz"), Str("2025-03-04"), Num(-1), Str("Exam"))
StringDuration   == MkTask(Str("s"), Str("Read"), Str("2025-03-05"), Str("2"), Str("Reading"))
\* a second task with the id of TaskA
TaskADup    == MkTask(Str("a"), Str("Quiz"), Str("2025-03-02"), Num(1), Str("Exam"))
\* a task whose dueDate names no day of the calendar
TaskBadDate == MkTask(Str("c"), Str("Report"), Str("2024-13-01"), Num(3), Str("Lab"))
\* an entry with a key named hasOwnProperty, such as {"hasOwnProperty": 1}
ShadowEntry      == Obj([NoFields EXCEPT !["hasOwnProperty"] = Num(1)])

\* JSON.stringify followed by JSON.parse on one array entry
JsonEntry(e) == [t |-> e.t, f |-> [k \in TaskFields |-> JsonPrim(e.f[k])]]

\* ... and on a whole array
JsonArray(items) == [i \in 1..Len(items) |-> JsonEntry(items[i])]

RECURSIVE SeqsUpTo(_, _)
SeqsUpTo(S, n) ==
    IF n = 0 THEN {<<>>}
    ELSE LET shorter == SeqsUpTo(S, n - 1)
         IN  shorter \cup {Append(q, x) : q \in {r \in shorter : Len(r) = n - 1}, x \in S}

-----------------------------------------------------------------------------
(* The two stores.  An item of a store is a text: absent (getItem returns  *)
(* null), the empty string, a text JSON.parse rejects, or a JSON text,     *)
(* kept as the value JSON.parse returns for it.                            *)

Absent      == [kind |-> "absent", top |-> "null", items |-> <<>>]
EmptyText   == [kind |-> "empty", top |-> "null", items |-> <<>>]
BadText     == [kind |-> "bad", top |-> "null", items |-> <<>>]
\* a JSON text whose top-level value is no array, such as {"a":1}
ObjectText  == [kind |-> "json", top |-> "object", items |-> <<>>]
ArrayText(items) == [kind |-> "json", top |-> "array", items |-> items]

\* JSON.stringify(tasks) for an array of tasks
Stringify(taskList) == ArrayText(JsonArray(taskList))

StoredTasks == {TaskA, TaskB}
Collections == SeqsUpTo(StoredTasks, MaxTasks)
StoreTexts  == {Absent, EmptyText, BadText, ObjectText}
                   \cup {ArrayText(c) : c \in Collections}

\* if (data): null and the empty string are falsy
Truthy(text) == text.kind \notin {"absent", "empty"}

\* Array.isArray(x) && x.length > 0 on what JSON.parse returned
NonEmptyArray(text) == text.top = "array" /\ Len(text.items) > 0


-----------------------------------------------------------------------------
(* What the environment does to one storage call: which of the browser's   *)
(* storage methods throw (storage disabled, quota exceeded) and how the    *)
(* two helpers that storage.js calls but does not define end.              *)

Outcomes == {"ok", "throw"}

Envs ==
    [getItemThrows : BOOLEAN,        \* localStorage.getItem
     setItemThrows : BOOLEAN,        \* localStorage.setItem
     sessionGetThrows : BOOLEAN,     \* sessionStorage.getItem
     sessionSetThrows : BOOLEAN,     \* sessionStorage.setItem
     seed : Outcomes,                \* loadSeedData() in the try block
     seedRetry : Outcomes,           \* loadSeedData() in the catch block
     autoBackup : Outcomes]          \* createAutomaticBackup(tasks)

CalmEnv ==
    [getItemThrows |-> FALSE, setItemThrows |-> FALSE,
     sessionGetThrows |-> FALSE, sessionSetThrows |-> FALSE,
     seed |-> "ok", seedRetry |-> "ok", autoBackup |-> "ok"]

\* the flags loadTasks reads; a flag of a method the call cannot reach once
\* an earlier one threw stays calm, and so do the flags it never reads
LoadEnvs ==
    {e \in Envs :
        /\ e.autoBackup = "ok" /\ ~e.sessionSetThrows
        /\ e.getItemThrows =>
               ~e.sessionGetThrows /\ ~e.setItemThrows /\ e.seed = "ok"
        /\ e.sessionGetThrows => ~e.setItemThrows /\ e.seed = "ok"}

\* the flags saveTasks reads, in the same way
SaveEnvs ==
    {e \in Envs :
        /\ ~e.getItemThrows /\ ~e.sessionGetThrows
        /\ e.seed = "ok" /\ e.seedRetry = "ok"
        /\ e.setItemThrows => e.autoBackup = "ok"
        /\ (~e.setItemThrows /\ e.autoBackup = "ok") => ~e.sessionSetThrows}

\* the bundled seed dataset (seed.json)
SeedData == <<SeedTask>>

\* loadSeedData(): the seed dataset, or an exception
LoadSeedData(outcome) ==
    [threw |-> outcome = "throw",
     ret |-> IF outcome = "throw" THEN <<>> ELSE SeedData]

-----------------------------------------------------------------------------
(* loadTasks *)

\* how a block of loadTasks ends: by return or by throw, with the sources it
\* consulted in order, the source of the returned collection and the value
\* of localStorage[STORAGE_KEY] it leaves
Ended(threw, ret, from, consulted, local) ==
    [threw |-> threw, ret |-> ret, from |-> from, consulted |-> consulted,
     local |-> local]

\* the body of the try block
LoadTasksTry(local, backup, env) ==
    IF env.getItemThrows \/ (Truthy(local) /\ local.kind = "bad")
    THEN Ended(TRUE, <<>>, "none", <<"primary">>, local)
    ELSE IF Truthy(local) /\ NonEmptyArray(local)
    THEN Ended(FALSE, local.items, "primary", <<"primary">>, local)
    ELSE IF env.sessionGetThrows \/ (Truthy(backup) /\ backup.kind = "bad")
    THEN Ended(TRUE, <<>>, "none", <<"primary", "backup">>, local)
    ELSE IF Truthy(backup) /\ NonEmptyArray(backup)
    THEN IF env.setItemThrows
         THEN Ended(TRUE, <<>>, "none", <<"primary", "backup">>, local)
         ELSE Ended(FALSE, backup.items, "backup", <<"primary", "backup">>, backup)
    ELSE LET seed == LoadSeedData(env.seed)
         IN  Ended(seed.threw, seed.ret, IF seed.threw THEN "none" ELSE "seed",
                   <<"primary", "backup", "seed">>, local)

\* the catch block without its inner try: a failing seed loader escapes
LoadTasksCatchUnguarded(tried, env) ==
    LET seed == LoadSeedData(env.seedRetry)
    IN  Ended(seed.threw, seed.ret, IF seed.threw THEN "none" ELSE "seed",
              tried.consulted \o <<"seed">>, tried.local)

\* the catch block: the seed dataset, and the empty array when that throws
LoadTasksCatch(tried, env) ==
    LET seed == LoadSeedData(env.seedRetry)
    IN  IF seed.threw
        THEN Ended(FALSE, <<>>, "empty", tried.consulted \o <<"seed", "empty">>,
                   tried.local)
        ELSE Ended(FALSE, seed.ret, "seed", tried.consulted \o <<"seed">>,
                   tried.local)

loadTasks(local, backup, env) ==
    LET tried == LoadTasksTry(local, backup, env)
    IN  IF tried.threw THEN LoadTasksCatch(tried, env) ELSE tried

-----------------------------------------------------------------------------
(* saveTasks *)

Saved(threw, ok, local, backup) ==
    [threw |-> threw, ok |-> ok, local |-> local, backup |-> backup]

\* createAutomaticBackup(tasks): copies the collection to the session backup
CreateAutomaticBackup(taskList, backup, outcome) ==
    [threw |-> outcome = "throw",
     backup |-> IF outcome = "throw" THEN backup ELSE Stringify(taskList)]

\* the body of the try block
SaveTasksTry(taskList, local, backup, env) ==
    IF env.setItemThrows
    THEN Saved(TRUE, FALSE, local, backup)
    ELSE IF Len(taskList) > 0
    THEN LET auto == CreateAutomaticBackup(taskList, backup, env.autoBackup)
         IN  Saved(auto.threw, ~auto.threw, Stringify(taskList), auto.backup)
    ELSE Saved(FALSE, TRUE, Stringify(taskList), backup)

\* the catch block without the write to the session backup
SaveTasksCatchNoFallback(taskList, tried, env) ==
    Saved(FALSE, FALSE, tried.local, tried.backup)

\* the catch block: the session backup is tried, its failure is swallowed
SaveTasksCatch(taskList, tried, env) ==
    Saved(FALSE, FALSE, tried.local,
          IF env.sessionSetThrows THEN tried.backup ELSE Stringify(taskList))

saveTasks(taskList, local, backup, env) ==
    LET tried == SaveTasksTry(taskList, local, backup, env)
    IN  IF tried.threw THEN SaveTasksCatch(taskList, tried, env) ELSE tried

-----------------------------------------------------------------------------
(* validateTaskStructure *)

RequiredFields == {"id", "title", "dueDate", "duration", "tag"}

\* task.hasOwnProperty(field): an own property named hasOwnProperty shadows
\* Object.prototype.hasOwnProperty, and a value read from JSON is never a
\* function, so the call throws a TypeError
HasOwnPropertyThrows(e) == e.f["hasOwnProperty"] # Undefined

\* the loop over requiredFields finds a field missing, null or undefined
RequiredFieldMissing(e) ==
    \E k \in RequiredFields : e.f[k] \in {Undefined, Null}

\* the typeof tests of the required fields
RequiredTypesWrong(e) ==
    \/ TypeOf(e.f["id"]) # "string"
    \/ TypeOf(e.f["title"]) # "string"
    \/ TypeOf(e.f["dueDate"]) # "string"
    \/ TypeOf(e.f["tag"]) # "string"
    \/ TypeOf(e.f["duration"]) # "number"
    \/ LessThanZero(e.f["duration"])

\* the typeof tests of the optional fields that are present
OptionalTypesWrong(e) ==
    \E k \in {"description", "createdAt", "updatedAt"} :
        e.f[k] # Undefined /\ TypeOf(e.f[k]) # "string"

\* [threw, valid]: the value returned, or the TypeError raised
validateTaskStructure(e) ==
    IF e.t \notin {"object", "array"}
    THEN [threw |-> FALSE, valid |-> FALSE]
    ELSE IF HasOwnPropertyThrows(e)
    THEN [threw |-> TRUE, valid |-> FALSE]
    ELSE [threw |-> FALSE,
          valid |-> ~RequiredFieldMissing(e) /\ ~RequiredTypesWrong(e)
                        /\ ~OptionalTypesWrong(e)]

-----------------------------------------------------------------------------
(* Settings objects and the export envelope *)

SettingsFields ==
    {"timeUnit", "dateFormat", "dueReminders", "goalAlerts", "durationCap",
     "caseSensitiveSearch"}

NoSettingsFields == [k \in SettingsFields |-> Undefined]

\* data.settings: an object, or a value of another type (Undefined: no key)
SettingsObj(f) == [t |-> "object", f |-> f]
SettingsOther(tag) == [t |-> tag, f |-> NoSettingsFields]

DefaultSettings ==
    SettingsObj([timeUnit |-> Str("hours"), dateFormat |-> Str("YYYY-MM-DD"),
                 dueReminders |-> Bool(TRUE), goalAlerts |-> Bool(TRUE),
                 durationCap |-> Num(40), caseSensitiveSearch |-> Bool(FALSE)])

\* a partial settings object, as an import file may carry it
CapOnlySettings == SettingsObj([NoSettingsFields EXCEPT !["durationCap"] = Num(0)])

\* JSON.stringify followed by JSON.parse on a settings value
JsonSettings(v) == [t |-> v.t, f |-> [k \in SettingsFields |-> JsonPrim(v.f[k])]]

\* an import file: a text JSON.parse rejects, or a JSON text kept as the
\* value JSON.parse returns: its top-level type and, for an object, the
\* type of its tasks property, the elements of that array and the settings
\* property
BadFile ==
    [kind |-> "bad", top |-> "undefined", version |-> Undefined,
     exportedAt |-> Undefined, tasksT |-> "undefined", items |-> <<>>,
     settings |-> SettingsOther("undefined")]

\* a JSON text whose top-level value is null, a number, a string or an array
TopLevelFile(tag) == [BadFile EXCEPT !.kind = "json", !.top = tag]

Envelope(version, exportedAt, tasksT, items, value) ==
    [kind |-> "json", top |-> "object", version |-> version,
     exportedAt |-> exportedAt, tasksT |-> tasksT, items |-> items,
     settings |-> value]

\* generateTimestamp(): new Date().toISOString()
Timestamp == Str("2025-03-01T10:00:00.000Z")

\* the version exportData writes
ExportVersion == Str("1.0")

\* exportData(tasks, settings) for an array of tasks
exportData(taskList, value) ==
    Envelope(ExportVersion, Timestamp, "array", JsonArray(taskList),
             JsonSettings(value))

-----------------------------------------------------------------------------
(* saveSettings *)

\* localStorage[SETTINGS_KEY]: absent, or the JSON text of a settings value
AbsentSettings == [kind |-> "absent", value |-> SettingsOther("undefined")]
SettingsText(v) == [kind |-> "json", value |-> JsonSettings(v)]

\* saveSettings(settings): the item it leaves; a throwing setItem is caught
saveSettings(value, stored, setItemThrows) ==
    IF setItemThrows THEN stored ELSE SettingsText(value)

-----------------------------------------------------------------------------
(* importData *)

ImportResult(success, taskList, value, errors) ==
    [success |-> success, tasks |-> taskList, settings |-> value,
     errors |-> errors]

\* the messages of result.errors: n is the count a message carries
SkippedMessage(n) == [msg |-> "tasks were skipped due to invalid structure", n |-> n]
FormatMessage == [msg |-> "Tasks data is not in the expected format", n |-> 0]
ExceptionMessage == [msg |-> "error.message", n |-> 0]

\* the catch block
ImportFailed ==
    ImportResult(FALSE, <<>>, SettingsOther("null"), <<ExceptionMessage>>)

\* data.tasks.filter(task => validateTaskStructure(task))
FilterValid(items) == SelectSeq(items, LAMBDA e : validateTaskStructure(e).valid)

\* the callback of filter throws on some element
FilterThrows(items) ==
    \E i \in 1..Len(items) : validateTaskStructure(items[i]).threw

\* if (data.settings && typeof data.settings === 'object')
ImportedSettings(value) ==
    IF value.t \in {"object", "array"} THEN value ELSE SettingsOther("null")

\* the errors pushed for data.tasks
TaskErrors(data) ==
    IF data.tasksT = "array"
    THEN LET invalidTasks == Len(data.items) - Len(FilterValid(data.items))
         IN  IF invalidTasks > 0 THEN <<SkippedMessage(invalidTasks)>> ELSE <<>>
    ELSE IF data.tasksT \in {"string", "object", "number"}
    THEN <<FormatMessage>>
    ELSE <<>>

importData(text) ==
    IF text.kind # "json" \/ text.top \notin {"object", "array"}
    THEN ImportFailed
    ELSE IF text.tasksT = "array" /\ FilterThrows(text.items)
    THEN ImportFailed
    ELSE ImportResult(TRUE,
                      IF text.tasksT = "array" THEN FilterValid(text.items) ELSE <<>>,
                      ImportedSettings(text.settings),
                      TaskErrors(text))

-----------------------------------------------------------------------------
(* The values of variables that no call has written yet *)

NoExport == [valid |-> FALSE, tasks |-> <<>>, settings |-> SettingsOther("undefined")]

NoResult ==
    [done |-> FALSE, success |-> FALSE, tasks |-> <<>>,
     settings |-> SettingsOther("null"), errors |-> <<>>]

\* the import variables of a specification that imports nothing
IdleImport ==
    /\ fileText = BadFile
    /\ exported = NoExport
    /\ result = NoResult

\* the id variables of a specification that generates no id
IdleIds ==
    /\ clock = 0
    /\ generated = <<>>

NoCall ==
    [op |-> "none", arg |-> <<>>, env |-> CalmEnv, threw |-> FALSE,
     ok |-> FALSE, ret |-> <<>>, from |-> "none", consulted |-> <<>>,
     primary |-> "absent"]

\* no confirm callback has been stored yet
NoCallback == [kind |-> "none", id |-> Null]

\* the view before any modal was opened and any form submitted
\* no form has been submitted yet
NoSubmission == [valid |-> FALSE, dispatched |-> <<>>]

\* no email address has been validated
NoEmail == [t |-> "undefined", chars |-> <<>>]
NoVerdict == [done |-> FALSE, value |-> FALSE]

\* the pure functions of the model have not been called
\* the state container right after construction: default slices, nothing
\* typed, no notification running or waiting
IdleNotifier ==
    [state |-> [searchQuery |-> "", caseSensitive |-> FALSE],
     input |-> "", checkbox |-> FALSE,
     stack |-> <<>>, queue |-> <<>>, trace |-> <<>>]

\* no rendering method has run
NotViewed == [method |-> "none", got |-> <<>>, left |-> <<>>]

\* nothing has been assigned to innerHTML
NoMarkup == [method |-> "none", task |-> <<>>, parts |-> <<>>]

\* the page before any search: currentSearchResults = [], nothing rendered
NoSearch ==
    [query |-> "", tag |-> "", results |-> <<>>, count |-> 0, grid |-> <<>>]

\* the cap input before any click
NoCap == [typed |-> "", shown |-> ""]

\* getEmailValidationError has not been called
NoError == [done |-> FALSE, message |-> "null"]

\* the email field before any event
NoField == [value |-> <<>>, class |-> "none", message |-> ""]

\* no message is set and no timer is pending
NoMessage == [text |-> "", at |-> 0]
NoToast == [now |-> 0, error |-> NoMessage, success |-> NoMessage, timers |-> {}]

IdleAux ==
    /\ toast = NoToast
    /\ emailField = NoField
    /\ emailError = NoError
    /\ cap = NoCap
    /\ confirmClicks = 0
    /\ notifier = IdleNotifier
    /\ viewed = NotViewed
    /\ markup = NoMarkup
    /\ search = NoSearch

IdlePure ==
    /\ email = NoEmail
    /\ emailValid = NoVerdict
    /\ IdleAux

IdleView ==
    /\ showModal = FALSE
    /\ modalConfirmCallback = NoCallback
    /\ submission = NoSubmission
    /\ IdlePure

-----------------------------------------------------------------------------
(* The storage adapter as a state machine: the application calls loadTasks *)
(* and saveTasks in any order, on stores that hold anything.               *)

\* the stores of a specification that makes no storage call
IdleStorage ==
    /\ localData = Absent
    /\ sessionBackup = Absent
    /\ localSettings = AbsentSettings
    /\ call = NoCall

\* the state container before the application has put anything in it
IdleApp ==
    /\ tasks = <<>>
    /\ settings = DefaultSettings
    /\ editingTaskId = Null
    /\ message = "none"

InitStorage ==
    /\ localData \in StoreTexts
    /\ sessionBackup \in StoreTexts
    /\ localSettings = AbsentSettings
    /\ call = NoCall
    /\ IdleImport
    /\ IdleIds
    /\ IdleApp
    /\ IdleView

\* call.primary keeps what localStorage[STORAGE_KEY] was when the call began
CallLoadTasks ==
    \E env \in LoadEnvs :
        LET r == loadTasks(localData, sessionBackup, env)
        IN  /\ localData' = r.local
            /\ UNCHANGED <<sessionBackup, localSettings, importVars, viewVars, idVars, appVars>>
            /\ call' = [op |-> "loadTasks", arg |-> <<>>, env |-> env,
                        threw |-> r.threw, ok |-> FALSE, ret |-> r.ret,
                        from |-> r.from, consulted |-> r.consulted,
                        primary |-> localData.kind]

CallSaveTasks ==
    \E taskList \in Collections, env \in SaveEnvs :
        LET r == saveTasks(taskList, localData, sessionBackup, env)
        IN  /\ localData' = r.local
            /\ sessionBackup' = r.backup
            /\ UNCHANGED <<localSettings, importVars, viewVars, idVars, appVars>>
            /\ call' = [op |-> "saveTasks", arg |-> taskList, env |-> env,
                        threw |-> r.threw, ok |-> r.ok, ret |-> <<>>,
                        from |-> "none", consulted |-> <<>>,
                        primary |-> localData.kind]

NextStorage == CallLoadTasks \/ CallSaveTasks

SpecStorage == InitStorage /\ [][NextStorage]_vars

-----------------------------------------------------------------------------
(* importData and exportData as a state machine: a file is imported, or    *)
(* the application exports a collection and the file it wrote is imported. *)

ImportEntries ==
    {TaskA, TaskB, TaskHuge, NullEntry, MissingTitle, NegativeDuration,
     StringDuration, ShadowEntry}

FileSettings ==
    {SettingsOther("undefined"), SettingsOther("string"), DefaultSettings,
     CapOnlySettings}

ImportFiles ==
    {BadFile}
        \cup {TopLevelFile(tag) : tag \in {"null", "number", "string", "array"}}
        \cup {Envelope(ExportVersion, Timestamp, tasksT, <<>>, st) :
                 tasksT \in {"undefined", "null", "string", "object"},
                 st \in FileSettings}
        \cup {Envelope(ExportVersion, Timestamp, "array", items, st) :
                 items \in SeqsUpTo(ImportEntries, MaxEntries),
                 st \in FileSettings}

\* the collections exportData is given: tasks of the state container, each
\* of which passes validateTaskStructure
ExportableTasks ==
    {e \in {TaskA, TaskB, TaskHuge} : validateTaskStructure(e).valid}

InitImport ==
    /\ fileText \in ImportFiles
    /\ exported = NoExport
    /\ result = NoResult
    /\ IdleStorage
    /\ IdleIds
    /\ IdleApp
    /\ IdleView

CallExportData ==
    \E taskList \in SeqsUpTo(ExportableTasks, MaxEntries),
       value \in {DefaultSettings, CapOnlySettings} :
        /\ fileText' = exportData(taskList, value)
        /\ exported' = [valid |-> TRUE, tasks |-> taskList, settings |-> value]
        /\ result' = NoResult
        /\ UNCHANGED <<storageVars, idVars, appVars, viewVars>>

CallImportData ==
    LET r == importData(fileText)
    IN  /\ result' = [done |-> TRUE, success |-> r.success, tasks |-> r.tasks,
                      settings |-> r.settings, errors |-> r.errors]
        /\ UNCHANGED <<fileText, exported, storageVars, idVars, appVars, viewVars>>

NextImport == CallExportData \/ CallImportData

SpecImport == InitImport /\ [][NextImport]_vars

-----------------------------------------------------------------------------
(* generateId *)

\* the number of characters substr(2, 9) keeps
SuffixLength == 9

Min(a, b) == IF a < b THEN a ELSE b

RECURSIVE Join(_)
Join(chars) == IF chars = <<>> THEN "" ELSE Head(chars) \o Join(Tail(chars))

\* Math.random().toString(36) for a number whose base-36 fraction digits are
\* `digits`: "0" for 0, "0." followed by the digits otherwise
ToString36(digits) == IF digits = <<>> THEN <<"0">> ELSE <<"0", ".">> \o digits

\* str.substr(2, 9): at most nine characters from index 2 on
Substr2(chars) == SubSeq(chars, 3, Min(Len(chars), 2 + SuffixLength))

\* `task_${Date.now()}_${Math.random().toString(36).substr(2, 9)}`
generateId(now, digits) ==
    "task_" \o ToString(now) \o "_" \o Join(Substr2(ToString36(digits)))

NineDigits == <<"k", "3", "f", "9", "q", "0", "z", "a", "7">>

\* what Math.random() returns, as base-36 fraction digits: 0, two short
\* fractions, and two numbers that agree on their first nine digits
RandomDraws ==
    {<<>>, <<"4", "f">>, <<"x">>, NineDigits \o <<"u">>, NineDigits \o <<"5">>}

InitIds ==
    /\ clock \in 0..MaxClock
    /\ generated = <<>>
    /\ IdleStorage
    /\ IdleImport
    /\ IdleApp
    /\ IdleView

\* time passes between two calls
Tick ==
    /\ clock < MaxClock
    /\ clock' = clock + 1
    /\ UNCHANGED <<generated, storageVars, importVars, viewVars, appVars>>

CallGenerateId ==
    /\ Len(generated) < MaxIds
    /\ \E digits \in RandomDraws :
           generated' = Append(generated, generateId(clock, digits))
    /\ UNCHANGED <<clock, storageVars, importVars, viewVars, appVars>>

NextIds == Tick \/ CallGenerateId

SpecIds == InitIds /\ [][NextIds]_vars

-----------------------------------------------------------------------------
(* The state container (state.js).  Its task actions follow the data     *)
(* model: the add action generates the id and the timestamps, the update  *)
(* action refreshes updatedAt, and a duration is kept as a number.        *)

\* the decimal strings of the model and the numbers they denote
NumberOf(text) == CASE text = "2" -> 2 [] text = "0" -> 0 [] OTHER -> -1

\* a duration given as a decimal string is kept as the number it denotes
AsDuration(v) == IF v.t = "string" THEN Num(NumberOf(v.s)) ELSE v

\* the fields an action receives: Undefined for the ones it leaves alone
Payload(title, dueDate, duration, tag, description) ==
    [NoFields EXCEPT !["title"] = title, !["dueDate"] = dueDate,
                     !["duration"] = duration, !["tag"] = tag,
                     !["description"] = description]

\* taskActions.addTask(payload): the collection with the new task appended
addTask(list, payload, id) ==
    Append(list,
           Obj([payload EXCEPT !["id"] = Str(id),
                               !["duration"] = AsDuration(payload["duration"]),
                               !["completed"] = Bool(FALSE),
                               !["createdAt"] = Timestamp,
                               !["updatedAt"] = Timestamp]))

Merged(old, updates) ==
    [k \in TaskFields |->
        IF k = "updatedAt" THEN Timestamp
        ELSE IF updates[k] = Undefined THEN old[k]
        ELSE IF k = "duration" THEN AsDuration(updates[k])
        ELSE updates[k]]

\* taskActions.updateTask(id, updates): the tasks with that id are merged
updateTask(list, id, updates) ==
    [i \in 1..Len(list) |->
        IF list[i].f["id"] = id THEN Obj(Merged(list[i].f, updates)) ELSE list[i]]

-----------------------------------------------------------------------------
(* The validators of the task form (validators.js), as section 4.1 of the  *)
(* specification states them, on the strings the model types into the form *)

\* year, month, day of a string that matches dddd-dd-dd; <<>> for another
DateParts(text) ==
    CASE text = "2025-03-01" -> <<2025, 3, 1>>
      [] text = "2025-03-02" -> <<2025, 3, 2>>
      [] text = "2025-01-01" -> <<2025, 1, 1>>
      [] text = "2024-13-01" -> <<2024, 13, 1>>
      [] text = "2025-02-30" -> <<2025, 2, 30>>
      [] OTHER -> <<>>

IsLeapYear(y) == (y % 4 = 0 /\ y % 100 # 0) \/ y % 400 = 0

DaysInMonth(y, m) ==
    CASE m \in {4, 6, 9, 11} -> 30
      [] m = 2 -> IF IsLeapYear(y) THEN 29 ELSE 28
      [] OTHER -> 31

\* the string is a date of the calendar
IsCalendarDate(text) ==
    LET p == DateParts(text)
    IN  /\ p # <<>>
        /\ p[2] \in 1..12
        /\ p[3] \in 1..DaysInMonth(p[1], p[2])

\* validateField(field, value).isValid
validateField(field, text) ==
    CASE field = "title" -> text \notin {"", " Essay"}
      [] field = "date" -> IsCalendarDate(text)
      [] field = "duration" -> NumberOf(text) >= 0
      [] field = "tag" -> text \in {"Math-Homework", "Lab"}
      [] OTHER -> TRUE

-----------------------------------------------------------------------------
(* The handlers of the view layer (ui.js) *)

FormFields == {"title", "date", "duration", "tag", "description"}

\* validateForm(formData): every field passes its validator
validateForm(formData) == \A k \in FormFields : validateField(k, formData[k])

\* the payload handleFormSubmit builds from the form
FormPayload(formData) ==
    Payload(Str(formData["title"]), Str(formData["date"]),
            Str(formData["duration"]), Str(formData["tag"]),
            Str(formData["description"]))

\* what the user has typed when the form is submitted
FormInputs ==
    [title : {"Essay", ""}, date : {"2025-03-01", "2024-13-01"},
     duration : {"2", "-1"}, tag : {"Math-Homework"}, description : {""}]

\* the objects handed to window.appDev.addTask: a whole task, one without
\* a title and one whose title is empty
DevTask ==
    Payload(Str("Lab"), Str("2025-03-02"), Num(1), Str("Lab"), Undefined)
DevInputs ==
    {DevTask, [DevTask EXCEPT !["title"] = Undefined],
     [DevTask EXCEPT !["title"] = Str("")]}

\* the files handed to handleImportData: one that does not parse, an empty
\* backup, a backup of one task, two tasks with one id, a task whose
\* dueDate is no date, a task next to an entry that is skipped, and a
\* backup that carries settings
ImportedFile(items, st) == Envelope(ExportVersion, Timestamp, "array", items, st)
AppFiles ==
    {BadFile,
     ImportedFile(<<>>, SettingsOther("undefined")),
     ImportedFile(<<TaskA>>, SettingsOther("undefined")),
     ImportedFile(<<TaskA, TaskADup>>, SettingsOther("undefined")),
     ImportedFile(<<TaskBadDate>>, SettingsOther("undefined")),
     ImportedFile(<<NullEntry, TaskB>>, SettingsOther("undefined")),
     ImportedFile(<<TaskB>>, CapOnlySettings)}

\* what the stores do while the application runs: nothing throws, or
\* localStorage.setItem throws (quota exceeded)
AppEnvs == {CalmEnv, [CalmEnv EXCEPT !.setItemThrows = TRUE]}

\* what Math.random() returns while the application runs, all within one
\* millisecond
AppDraws == {<<>>, <<"x">>}

InitApp ==
    /\ IdleApp
    /\ IdleView
    /\ IdleStorage
    /\ IdleImport
    /\ IdleIds

\* handleImportData(file), with the callback of reader.onload; call keeps
\* the saveTasks call the handler makes
HandleImportDataOf(files) ==
    \E file \in files, env \in AppEnvs :
        LET r == importData(file)
            saved == saveTasks(r.tasks, localData, sessionBackup, env)
        IN  /\ IF r.success
               THEN /\ localData' = saved.local
                    /\ sessionBackup' = saved.backup
                    /\ localSettings' =
                           IF r.settings.t # "null"
                           THEN saveSettings(r.settings, localSettings,
                                             env.setItemThrows)
                           ELSE localSettings
                    /\ tasks' = r.tasks
                    /\ settings' = IF r.settings.t # "null"
                                   THEN r.settings ELSE settings
                    /\ message' = "success"
                    /\ call' = [NoCall EXCEPT !.op = "saveTasks",
                                    !.arg = r.tasks, !.env = env,
                                    !.threw = saved.threw, !.ok = saved.ok,
                                    !.primary = localData.kind]
               ELSE /\ message' = "error"
                    /\ UNCHANGED <<localData, sessionBackup, localSettings,
                                   tasks, settings, call>>
            /\ UNCHANGED <<importVars, viewVars, idVars, editingTaskId>>

HandleImportData == HandleImportDataOf(AppFiles)

\* if (editingTaskId): null and the empty string are falsy
IsEditing(id) == id # Null /\ id # Str("")

\* handleFormSubmit()
HandleFormSubmit ==
    \E formData \in FormInputs, digits \in AppDraws :
        /\ IF ~validateForm(formData)
           THEN /\ submission' = [valid |-> FALSE, dispatched |-> <<>>]
                /\ UNCHANGED tasks
           ELSE IF IsEditing(editingTaskId)
           THEN /\ tasks' = updateTask(tasks, editingTaskId, FormPayload(formData))
                /\ submission' = [valid |-> TRUE, dispatched |-> <<"updateTask">>]
           ELSE /\ Len(tasks) < MaxListed
                /\ tasks' = addTask(tasks, FormPayload(formData),
                                    generateId(clock, digits))
                /\ submission' = [valid |-> TRUE, dispatched |-> <<"addTask">>]
        /\ UNCHANGED <<clock, generated, settings, editingTaskId, message,
                       storageVars, importVars, showModal, modalConfirmCallback,
                       pureVars>>

\* window.appDev.addTask(task)
DevAddTask ==
    \E task \in DevInputs, digits \in AppDraws :
        /\ IF task["title"] \in {Undefined, Str("")}
           THEN UNCHANGED tasks
           ELSE /\ Len(tasks) < MaxListed
                /\ tasks' = addTask(tasks, task, generateId(clock, digits))
        /\ UNCHANGED <<generated, clock, settings, editingTaskId, message,
                       storageVars, importVars, viewVars>>

\* editTask(taskId), from the edit button of a task card
EditTask ==
    \E i \in 1..Len(tasks) :
        /\ editingTaskId' = tasks[i].f["id"]
        /\ UNCHANGED <<tasks, settings, message, storageVars, importVars, viewVars, idVars>>

\* the cancel-edit button
CancelEdit ==
    /\ editingTaskId # Null
    /\ editingTaskId' = Null
    /\ UNCHANGED <<tasks, settings, message, storageVars, importVars, viewVars, idVars>>

Next ==
    \/ HandleImportData
    \/ HandleFormSubmit
    \/ DevAddTask
    \/ EditTask
    \/ CancelEdit

Spec == InitApp /\ [][Next]_vars

-----------------------------------------------------------------------------
(* Properties of the storage adapter *)

\* C1: saveTasks(T) followed at once by loadTasks() returns a collection
\* equivalent to T (T as JSON writes and reads it), for every T, the empty
\* collection included, whatever the two stores held before.
C1_SaveThenLoadRoundTrip ==
    [][(call.op = "saveTasks" /\ call'.op = "loadTasks")
          => call'.ret = JsonArray(call.arg)]_vars

\* the place of a source in the order primary, backup, seed, empty
SourceRank(src) ==
    CASE src = "primary" -> 1 [] src = "backup" -> 2
      [] src = "seed" -> 3 [] OTHER -> 4

InOrder(consulted) ==
    \A i, j \in 1..Len(consulted) :
        i < j => SourceRank(consulted[i]) <= SourceRank(consulted[j])

Consulted(src) == \E i \in 1..Len(call.consulted) : call.consulted[i] = src

\* the session backup was read by the last call and held a non-empty array
BackupWasRead ==
    /\ Consulted("backup")
    /\ ~call.env.sessionGetThrows
    /\ sessionBackup.kind = "json"
    /\ NonEmptyArray(sessionBackup)

\* C2: loadTasks consults primary store, session backup, seed dataset and
\* empty collection in that order; when the primary value is absent or does
\* not parse, the session backup is consulted before the seed dataset, and a
\* non-empty backup that was read is the collection returned.
C2_StrictFallbackOrder ==
    call.op = "loadTasks" =>
        /\ InOrder(call.consulted)
        /\ (~call.env.getItemThrows /\ call.primary \in {"absent", "bad"}
               /\ Consulted("seed"))
               => Consulted("backup")
        /\ BackupWasRead => call.ret = sessionBackup.items

\* C3: loadTasks never raises to its caller: whatever the stores hold and
\* whichever of getItem, setItem and the seed loader throw, it returns a
\* collection taken from one of its four sources.
C3_LoadNeverRaises ==
    call.op = "loadTasks" =>
        /\ ~call.threw
        /\ call.from \in {"primary", "backup", "seed", "empty"}
        /\ call.from = "empty" => call.ret = <<>>

\* C3 witness: getItem threw and the seed loader failed, and the call
\* returned the empty collection
C3_Witness ==
    /\ call.op = "loadTasks"
    /\ call.env.getItemThrows
    /\ call.env.seedRetry = "throw"
    /\ ~call.threw
    /\ call.ret = <<>>

\* C4: saveTasks(T) writes the JSON of T to the primary store; when that
\* write fails it writes the JSON of T to the session backup and returns
\* false without throwing, also when the backup write fails too.
C4_SaveFallsBackWithoutThrowing ==
    call.op = "saveTasks" =>
        /\ ~call.threw
        /\ ~call.env.setItemThrows => localData = Stringify(call.arg)
        /\ call.env.setItemThrows =>
              /\ ~call.ok
              /\ ~call.env.sessionSetThrows
                     => sessionBackup = Stringify(call.arg)

\* C4 witness: the primary write of a non-empty collection failed and the
\* collection went to the session backup
C4_Witness ==
    /\ call.op = "saveTasks"
    /\ call.env.setItemThrows
    /\ ~call.env.sessionSetThrows
    /\ call.arg # <<>>
    /\ ~call.ok
    /\ sessionBackup = Stringify(call.arg)
    /\ localData # Stringify(call.arg)

\* C29: saveTasks returns true exactly when the JSON of the collection was
\* written to the primary store; a failure of the automatic backup after a
\* successful primary write neither makes the result false nor sends the
\* collection to the session fallback by way of the catch block.
C29_ResultFollowsThePrimaryWrite ==
    call.op = "saveTasks" =>
        /\ call.ok <=> ~call.env.setItemThrows
        /\ (~call.env.setItemThrows /\ call.env.autoBackup = "throw")
               => sessionBackup # Stringify(call.arg)

-----------------------------------------------------------------------------
(* Properties of importData and exportData *)

\* a structurally valid task of the data model: an object whose required
\* fields are present with their types, whose duration is not negative and
\* whose optional fields, when present, are strings
StructurallyValid(e) ==
    /\ e.t = "object"
    /\ ~RequiredFieldMissing(e)
    /\ ~RequiredTypesWrong(e)
    /\ ~OptionalTypesWrong(e)

ValidEntries(items) == SelectSeq(items, StructurallyValid)

IsEnvelope(text) == text.kind = "json" /\ text.top = "object"

\* C5: for a file whose tasks array holds N structurally valid tasks and M
\* invalid entries in any order, importData returns success with exactly
\* the N valid tasks in their order and reports M skipped entries; an
\* invalid entry never makes a valid task disappear.
C5_PartialAcceptance ==
    (result.done /\ IsEnvelope(fileText) /\ fileText.tasksT = "array") =>
        LET accepted == ValidEntries(fileText.items)
            skipped  == Len(fileText.items) - Len(accepted)
        IN  /\ result.success
            /\ result.tasks = accepted
            /\ result.errors =
                   IF skipped > 0 THEN <<SkippedMessage(skipped)>> ELSE <<>>

\* C6: importData rejects the whole input only when its top level is
\* structurally invalid; an input whose top-level value is the envelope
\* object is accepted with success = true, and a rejection carries no tasks
\* and no settings.
C6_RejectsOnlyInvalidTopLevel ==
    result.done =>
        /\ IsEnvelope(fileText) => result.success
        /\ ~result.success =>
               result.tasks = <<>> /\ result.settings = SettingsOther("null")

\* C10: importData(exportData(T, S)) returns success with the tasks of T in
\* their order, the settings S and no error, for every T whose tasks pass
\* validateTaskStructure and every settings object S; the envelope carries
\* version "1.0".
C10_ExportImportRoundTrip ==
    exported.valid =>
        /\ fileText.version = Str("1.0")
        /\ result.done =>
              /\ result.success
              /\ result.tasks = exported.tasks
              /\ result.settings = exported.settings
              /\ result.errors = <<>>

-----------------------------------------------------------------------------
(* Properties of generateId *)

\* C8: any two calls of generateId return different ids, calls made within
\* the same millisecond included.
C8_FreshIds ==
    \A i, j \in 1..Len(generated) : i # j => generated[i] # generated[j]

-----------------------------------------------------------------------------
(* Properties of the task collection of the state container *)

\* C7: no two tasks of the collection held by the state container share an
\* id, after any sequence of add, update and import operations; a
\* collection installed by handleImportData has pairwise distinct ids.
C7_UniqueIds ==
    \A i, j \in 1..Len(tasks) : i # j => tasks[i].f["id"] # tasks[j].f["id"]

\* C9: every task of the collection has a duration that is a non-negative
\* number and a dueDate that is a valid calendar date, after any sequence of
\* form submissions, dev-helper addTask calls and imports.
C9_DurationAndDueDateValid ==
    \A i \in 1..Len(tasks) :
        LET f == tasks[i].f
        IN  /\ f["duration"].t = "number"
            /\ f["duration"].n >= 0
            /\ f["dueDate"].t = "string"
            /\ IsCalendarDate(f["dueDate"].s)

-----------------------------------------------------------------------------
(* loadSettings and the settings store as a state machine *)

\* localStorage[SETTINGS_KEY] as getItem returns it: the empty string, a
\* text JSON.parse rejects, or the JSON text of a value that is no object
\* (null, a number, a string such as "ab", an array such as [1])
EmptySettingsText == [kind |-> "empty", value |-> SettingsOther("undefined")]
BadSettingsText   == [kind |-> "bad", value |-> SettingsOther("undefined")]
OtherSettingsText(tag) == [kind |-> "json", value |-> SettingsOther(tag)]

\* another value for each setting, as a settings page may persist it
AlternativeSettings ==
    SettingsObj([timeUnit |-> Str("minutes"), dateFormat |-> Str("DD/MM/YYYY"),
                 dueReminders |-> Bool(FALSE), goalAlerts |-> Null,
                 durationCap |-> Num(10), caseSensitiveSearch |-> Bool(TRUE)])

\* the partial objects a store may hold: any subset of the keys
PartialSettings ==
    {SettingsObj([k \in SettingsFields |->
                     IF k \in keys THEN AlternativeSettings.f[k] ELSE Undefined]) :
        keys \in SUBSET SettingsFields}

SettingsTexts ==
    {AbsentSettings, EmptySettingsText, BadSettingsText}
        \cup {OtherSettingsText(tag) : tag \in {"null", "number", "string", "array"}}
        \cup {SettingsText(v) : v \in PartialSettings}

\* what loadSettings returns: the object, and whether it has keys that are
\* no setting (the index keys a spread string or array brings)
Loaded(threw, value, extraKeys) ==
    [threw |-> threw, value |-> value, extraKeys |-> extraKeys]

\* { ...parsed } alone, without the defaults
SpreadWithoutDefaults(defaults, parsed) ==
    IF parsed.t = "object" THEN parsed ELSE SettingsObj(NoSettingsFields)

\* { ...defaultSettings, ...parsed }: an own key of parsed wins, null and
\* the primitives spread nothing
SpreadOverDefaults(defaults, parsed) ==
    IF parsed.t = "object"
    THEN SettingsObj([k \in SettingsFields |->
                         IF parsed.f[k] # Undefined THEN parsed.f[k]
                         ELSE defaults.f[k]])
    ELSE defaults

loadSettings(stored, getItemThrows) ==
    IF getItemThrows \/ stored.kind = "bad"
    THEN Loaded(FALSE, DefaultSettings, FALSE)
    ELSE IF stored.kind \in {"absent", "empty"}
    THEN Loaded(FALSE, DefaultSettings, FALSE)
    ELSE Loaded(FALSE, SpreadOverDefaults(DefaultSettings, stored.value),
                stored.value.t \in {"string", "array"})

\* the settings handed to saveSettings
SavedSettings == {DefaultSettings, AlternativeSettings, CapOnlySettings}

InitSettings ==
    /\ localSettings \in SettingsTexts
    /\ localData = Absent
    /\ sessionBackup = Absent
    /\ call = NoCall
    /\ IdleImport
    /\ IdleIds
    /\ IdleApp
    /\ IdleView

CallLoadSettings ==
    \E getItemThrows \in BOOLEAN :
        LET r == loadSettings(localSettings, getItemThrows)
        IN  /\ call' = [NoCall EXCEPT !.op = "loadSettings",
                            !.env = [CalmEnv EXCEPT !.getItemThrows = getItemThrows],
                            !.threw = r.threw,
                            !.ret = [value |-> r.value, extraKeys |-> r.extraKeys],
                            !.primary = localSettings.kind]
            /\ UNCHANGED <<localData, sessionBackup, localSettings, importVars, viewVars,
                           idVars, appVars>>

CallSaveSettings ==
    \E value \in SavedSettings, setItemThrows \in BOOLEAN :
        /\ localSettings' = saveSettings(value, localSettings, setItemThrows)
        /\ call' = [NoCall EXCEPT !.op = "saveSettings",
                        !.env = [CalmEnv EXCEPT !.setItemThrows = setItemThrows],
                        !.ok = ~setItemThrows,
                        !.primary = localSettings.kind]
        /\ UNCHANGED <<localData, sessionBackup, importVars, viewVars, idVars, appVars>>

NextSettings == CallLoadSettings \/ CallSaveSettings

SpecSettings == InitSettings /\ [][NextSettings]_vars

\* the keys the persisted text gives a value: those of a parsed object
PersistedKeys ==
    IF localSettings.kind = "json" /\ localSettings.value.t = "object"
    THEN {k \in SettingsFields : localSettings.value.f[k] # Undefined}
    ELSE {}

\* C11: loadSettings returns the defaults merged with the persisted object:
\* every default key is present, a key of the persisted partial object takes
\* the persisted value, and an absent or unparseable item gives exactly the
\* defaults; the call never throws.
C11_DefaultsMergedWithPersisted ==
    call.op = "loadSettings" =>
        /\ ~call.threw
        /\ \A k \in SettingsFields : call.ret.value.f[k] # Undefined
        /\ ~call.env.getItemThrows =>
              /\ \A k \in PersistedKeys :
                     call.ret.value.f[k] = localSettings.value.f[k]
              /\ \A k \in SettingsFields \ PersistedKeys :
                     call.ret.value.f[k] = DefaultSettings.f[k]
        /\ (call.env.getItemThrows \/ localSettings.kind \in {"absent", "bad"}) =>
              call.ret = [value |-> DefaultSettings, extraKeys |-> FALSE]

\* C11 witness: the store held a partial object (the cap alone) and
\* loadSettings filled the other keys in from the defaults
C11_Witness ==
    /\ call.op = "loadSettings"
    /\ ~call.env.getItemThrows
    /\ PersistedKeys = {"durationCap"}
    /\ call.ret.value.f["durationCap"] = Num(10)
    /\ call.ret.value.f["timeUnit"] = Str("hours")

-----------------------------------------------------------------------------
(* clearAllData and handleClearData: tasks are imported (and saved by the  *)
(* import handler), cleared and loaded again, starting from empty stores   *)

\* how the two removeItem calls of clearAllData end: both succeed, the
\* first throws, or the second throws after the first has removed its item
ClearOutcomes == {"ok", "firstThrows", "secondThrows"}

\* clearAllData(): the flag it returns and the items it leaves in
\* localStorage; sessionStorage is not touched
clearAllData(local, stored, outcome) ==
    [ok |-> outcome = "ok",
     local |-> IF outcome = "firstThrows" THEN local ELSE Absent,
     settings |-> IF outcome = "ok" THEN AbsentSettings ELSE stored]

InitClear ==
    /\ IdleStorage
    /\ IdleImport
    /\ IdleIds
    /\ IdleApp
    /\ IdleView

\* handleClearData(): the state is reset when clearAllData returned true,
\* and the error message is set otherwise
HandleClearData ==
    \E outcome \in ClearOutcomes :
        LET r == clearAllData(localData, localSettings, outcome)
        IN  /\ localData' = r.local
            /\ localSettings' = r.settings
            /\ call' = [NoCall EXCEPT !.op = "clearAllData", !.ok = r.ok,
                                      !.primary = localData.kind]
            /\ IF r.ok
               THEN /\ tasks' = <<>>
                    /\ settings' = DefaultSettings
                    /\ editingTaskId' = Null
                    /\ message' = "none"
               ELSE /\ message' = "error"
                    /\ UNCHANGED <<tasks, settings, editingTaskId>>
            /\ UNCHANGED <<sessionBackup, importVars, viewVars, idVars>>

NextClear ==
    \/ CallLoadTasks
    \/ HandleClearData
    \/ HandleImportData

SpecClear == InitClear /\ [][NextClear]_vars

\* every task of the collection comes from the seed dataset
OnlySeedTasks(list) ==
    \A i \in 1..Len(list) : \E j \in 1..Len(SeedData) : list[i] = SeedData[j]

\* C12: once clearAllData() has returned true and the state is reset, the
\* task collection of the state is empty, and a loadTasks() that follows
\* returns none of the tasks saved before the clear, from the primary store
\* or from the session backup.
C12_ClearRemovesAllTasks ==
    [][/\ (HandleClearData /\ call'.ok) => tasks' = <<>>
       /\ (call.op = "clearAllData" /\ call.ok /\ call'.op = "loadTasks")
              => OnlySeedTasks(call'.ret)]_vars

-----------------------------------------------------------------------------
(* The confirmation modal: the delete button of a task card, the clear-data *)
(* button and the three ways of closing the modal                          *)

\* the callbacks showConfirmationModal is given
DeleteCallback(id) == [kind |-> "delete", id |-> id]
ClearCallback == [kind |-> "clear", id |-> Null]

\* the tasks slice had the stored callback been invoked on closing
TasksAfterCallback(list, cb) ==
    CASE cb.kind = "delete" -> SelectSeq(list, LAMBDA e : e.f["id"] # cb.id)
      [] cb.kind = "clear" -> <<>>
      [] OTHER -> list

\* the tasks slice after uiActions.hideModal: the action touches showModal
\* alone and modalConfirmCallback is not invoked
TasksAfterHideModal(list, cb) == list

\* deleteTask(taskId), from the delete button of a task card
ClickDeleteButton ==
    \E i \in 1..Len(tasks) :
        /\ modalConfirmCallback' = DeleteCallback(tasks[i].f["id"])
        /\ showModal' = TRUE
        /\ UNCHANGED <<submission, pureVars, storageVars, importVars, idVars,
                       appVars>>

\* the click listener of clearDataBtn
ClickClearDataButton ==
    /\ modalConfirmCallback' = ClearCallback
    /\ showModal' = TRUE
    /\ UNCHANGED <<submission, pureVars, storageVars, importVars, idVars,
                   appVars>>

\* what each of the three closing handlers does
CloseModal ==
    /\ showModal
    /\ showModal' = FALSE
    /\ tasks' = TasksAfterHideModal(tasks, modalConfirmCallback)
    /\ UNCHANGED <<modalConfirmCallback, submission, pureVars, settings,
                   editingTaskId, message, storageVars, importVars, idVars>>

\* the click listener of modalCancel
ClickModalCancel == CloseModal

\* the click listener of the modal, for a click on the backdrop
ClickBackdrop == CloseModal

\* the keydown listener of the document, for the Escape key
PressEscape == CloseModal

NextModal ==
    \/ HandleImportData
    \/ ClickDeleteButton
    \/ ClickClearDataButton
    \/ ClickModalCancel
    \/ ClickBackdrop
    \/ PressEscape

SpecModal == InitApp /\ [][NextModal]_vars

\* C13: a click on a delete button or on the clear-data button only opens
\* the confirmation modal, and closing the modal by Cancel, by a backdrop
\* click or by Escape leaves the task collection and the stores as they
\* were: the stored confirm callback is not run.
C13_OnlyWithConfirmation ==
    [][/\ (ClickDeleteButton \/ ClickClearDataButton) =>
              /\ showModal'
              /\ UNCHANGED <<tasks, localData, sessionBackup, localSettings>>
       /\ (ClickModalCancel \/ ClickBackdrop \/ PressEscape) =>
              /\ ~showModal'
              /\ UNCHANGED <<tasks, localData, sessionBackup, localSettings>>]_vars

\* C13 witness: the modal opened for the deletion of a task was closed and
\* the task is still in the collection
C13_Witness ==
    /\ ~showModal
    /\ modalConfirmCallback.kind = "delete"
    /\ \E i \in 1..Len(tasks) : tasks[i].f["id"] = modalConfirmCallback.id

-----------------------------------------------------------------------------
(* The task form: a collection is in the state container, a task is        *)
(* picked for editing or not, and the form is submitted                    *)

\* a task whose id is the empty string: validateTaskStructure asks of an
\* id only that it is a string
TaskNoId == MkTask(Str(""), Str("Notes"), Str("2025-03-03"), Num(1), Str("Lab"))

\* the files whose import put the collection in the state container
FormFiles ==
    {ImportedFile(<<>>, SettingsOther("undefined")),
     ImportedFile(<<TaskA>>, SettingsOther("undefined")),
     ImportedFile(<<TaskNoId>>, SettingsOther("undefined")),
     ImportedFile(<<TaskB, NullEntry>>, SettingsOther("undefined"))}

InitForm ==
    /\ tasks \in {importData(file).tasks : file \in FormFiles}
    /\ settings = DefaultSettings
    /\ editingTaskId = Null
    /\ message = "none"
    /\ IdleView
    /\ IdleStorage
    /\ IdleImport
    /\ IdleIds

NextForm ==
    \/ HandleFormSubmit
    \/ EditTask
    \/ CancelEdit

SpecForm == InitForm /\ [][NextForm]_vars

\* C14: a submission in which a field fails validation dispatches no task
\* action and leaves the task collection unchanged; a submission in which
\* every field passes dispatches exactly one action: updateTask when
\* editingTaskId is set, addTask otherwise.
C14_SubmitDispatchesOneAction ==
    [][HandleFormSubmit =>
          /\ ~submission'.valid =>
                 submission'.dispatched = <<>> /\ tasks' = tasks
          /\ submission'.valid =>
                 submission'.dispatched =
                     IF editingTaskId # Null THEN <<"updateTask">>
                     ELSE <<"addTask">>]_vars

-----------------------------------------------------------------------------
(* Persistence of an imported collection *)

\* C15: when handleImportData has completed a successful import, the task
\* collection of the state container and the collection persisted in the
\* primary store are the same: the imported one has replaced the previous
\* one in both places.
C15_ImportKeepsStoreInStep ==
    [][(HandleImportData /\ message' = "success") =>
          localData' = Stringify(tasks')]_vars

-----------------------------------------------------------------------------
(* isValidEmail (email-validator.js).  A string is the sequence of its     *)
(* characters.                                                             *)

\* the limits of isValidEmail
MaxEmailLength == 254
MaxLocalLength == 64
MaxDomainLength == 253
MaxLabelLength == 63
MinTldLength == 2

Letters ==
    {"a", "b", "c", "d", "e", "f", "g", "h", "i", "j", "k", "l", "m", "n",
     "o", "p", "q", "r", "s", "t", "u", "v", "w", "x", "y", "z", "A", "Z"}
Digits == {"0", "1", "2", "3", "4", "5", "6", "7", "8", "9"}
Alnum == Letters \cup Digits

\* the character class of the local part in emailRegex, but for the
\* apostrophe and the grave accent, which no input of the model holds
LocalChars ==
    Alnum \cup {".", "!", "#", "$", "%", "&", "*", "+", "/", "=", "?",
                "^", "_", "{", "|", "}", "~", "-"}

\* the white space String.prototype.trim removes
WhiteSpace == {" ", "\t", "\n"}

AllIn(chars, S) == \A i \in 1..Len(chars) : chars[i] \in S

RECURSIVE TrimStart(_)
TrimStart(chars) ==
    IF chars # <<>> /\ Head(chars) \in WhiteSpace
    THEN TrimStart(Tail(chars)) ELSE chars

RECURSIVE TrimEnd(_)
TrimEnd(chars) ==
    IF chars # <<>> /\ chars[Len(chars)] \in WhiteSpace
    THEN TrimEnd(SubSeq(chars, 1, Len(chars) - 1)) ELSE chars

\* email.trim()
Trim(chars) == TrimEnd(TrimStart(chars))

\* str.split(sep) for a separator of one character: the pieces between the
\* separators, one piece for a string without any
RECURSIVE SplitOn(_, _)
SplitOn(chars, sep) ==
    IF \A i \in 1..Len(chars) : chars[i] # sep
    THEN <<chars>>
    ELSE LET at == CHOOSE i \in 1..Len(chars) :
                       chars[i] = sep /\ \A j \in 1..(i - 1) : chars[j] # sep
         IN  <<SubSeq(chars, 1, at - 1)>>
                 \o SplitOn(SubSeq(chars, at + 1, Len(chars)), sep)

StartsWith(chars, c) == chars # <<>> /\ chars[1] = c
EndsWith(chars, c) == chars # <<>> /\ chars[Len(chars)] = c

\* str.includes("..")
HasConsecutiveDots(chars) ==
    \E i \in 1..(Len(chars) - 1) : chars[i] = "." /\ chars[i + 1] = "."

\* one label of emailRegex: [a-zA-Z0-9](?:[a-zA-Z0-9-]{0,61}[a-zA-Z0-9])?
RegexLabel(label) ==
    /\ Len(label) \in 1..MaxLabelLength
    /\ label[1] \in Alnum
    /\ label[Len(label)] \in Alnum
    /\ AllIn(label, Alnum \cup {"-"})

\* emailRegex.test(email)
EmailRegexMatches(chars) ==
    LET parts == SplitOn(chars, "@")
    IN  /\ Len(parts) = 2
        /\ parts[1] # <<>>
        /\ AllIn(parts[1], LocalChars)
        /\ LET labels == SplitOn(parts[2], ".")
           IN  \A i \in 1..Len(labels) : RegexLabel(labels[i])

\* the tests on the local part: true when one of them returns false
LocalPartTooLong(localPart) == Len(localPart) > MaxLocalLength
LocalPartNeverLacksLetter(localPart) == FALSE
LocalPartLacksLetter(localPart) == \A i \in 1..Len(localPart) : localPart[i] \notin Letters

LocalPartRejected(localPart) ==
    \/ localPart = <<>>
    \/ LocalPartTooLong(localPart)
    \/ LocalPartLacksLetter(localPart)
    \/ StartsWith(localPart, ".") \/ EndsWith(localPart, ".")
    \/ HasConsecutiveDots(localPart)

\* the loop over domainLabels
LabelRejected(label) ==
    \/ Len(label) = 0 \/ Len(label) > MaxLabelLength
    \/ StartsWith(label, "-") \/ EndsWith(label, "-")
    \/ ~AllIn(label, Alnum \cup {"-"})

\* the test of the last label
TldShorterThanThreeRejected(tld) == Len(tld) < MinTldLength + 1 \/ ~AllIn(tld, Letters)
TldRejected(tld) == Len(tld) < MinTldLength \/ ~AllIn(tld, Letters)

DomainRejected(domain) ==
    \/ domain = <<>> \/ Len(domain) > MaxDomainLength
    \/ \A i \in 1..Len(domain) : domain[i] # "."
    \/ StartsWith(domain, ".") \/ EndsWith(domain, ".")
    \/ StartsWith(domain, "-") \/ EndsWith(domain, "-")
    \/ LET domainLabels == SplitOn(domain, ".")
       IN  \/ \E i \in 1..Len(domainLabels) : LabelRejected(domainLabels[i])
           \/ TldRejected(domainLabels[Len(domainLabels)])

\* isValidEmail(email) for a value of any type
isValidEmail(value) ==
    IF value.t # "string" \/ value.chars = <<>>
    THEN FALSE
    ELSE LET trimmed == Trim(value.chars)
         IN  IF Len(trimmed) = 0 \/ Len(trimmed) > MaxEmailLength
             THEN FALSE
             ELSE IF ~EmailRegexMatches(trimmed)
             THEN FALSE
             ELSE LET parts == SplitOn(trimmed, "@")
                  IN  /\ ~LocalPartRejected(parts[1])
                      /\ ~DomainRejected(parts[2])

-----------------------------------------------------------------------------
(* isValidEmail as a state machine: an address is typed and validated *)

RECURSIVE Repeat(_, _)
Repeat(c, n) == IF n = 0 THEN <<>> ELSE <<c>> \o Repeat(c, n - 1)

\* every local part and every domain up to the bounds, joined by one @
GeneratedEmails ==
    {l \o <<"@">> \o d :
        l \in SeqsUpTo({"a", "1", "."}, MaxLocalPart),
        d \in SeqsUpTo({"a", "1", ".", "-"}, MaxDomainPart)}

\* 12@gmail.com and a..b@x.com
TwelveAtGmail == <<"1", "2", "@", "g", "m", "a", "i", "l", ".", "c", "o", "m">>
DoubleDotLocal == <<"a", ".", ".", "b", "@", "x", ".", "c", "o", "m">>

ShortDomain == <<"@", "a", ".", "a", "a">>

\* addresses of the module's documentation, addresses with white space, with
\* two @, without any, with characters outside the classes, and addresses
\* at and beyond the length limits
NamedEmails ==
    {TwelveAtGmail, DoubleDotLocal,
     <<"u", "s", "e", "r", "@", "e", "x", "a", "m", "p", "l", "e", ".", "c", "o", "m">>,
     <<"t", "e", "s", "t", "+", "t", "a", "g", "@", "d", ".", "o", "r", "g">>,
     <<"u", "_", "n", "@", "s", "u", "b", ".", "d", "o", ".", "c", "o", "m">>,
     <<"A", "Z", "@", "a", "-", "a", ".", "Z", "A">>,
     <<"a", "@", "a", "-", "-", "a", ".", "a", "a">>,
     <<".", "_", "-", "@", "d", ".", "c", "o", "m">>,
     <<" ", "a", "@", "a", ".", "a", "a", " ", "\n">>,
     <<"a", " ", "b", "@", "a", ".", "a", "a">>,
     <<"a", "@", "a", " ", ".", "a", "a">>,
     <<"a", "@", "a", "@", "a", ".", "a", "a">>,
     <<"a", "@", "a", ".", "a", "a", "@">>,
     <<"a", ".", "a", "a">>,
     <<" ", " ">>,
     <<"a", "(", "@", "a", ".", "a", "a">>,
     <<"a", "@", "a", "_", "a", ".", "a", "a">>,
     <<"a", "@", "a", ".", "a", "a", "a">>,
     Repeat("a", MaxLocalLength) \o ShortDomain,
     Repeat("a", MaxLocalLength + 1) \o ShortDomain,
     <<"a", "@">> \o Repeat("b", MaxLabelLength) \o <<".", "a", "a">>,
     <<"a", "@">> \o Repeat("b", MaxLabelLength + 1) \o <<".", "a", "a">>,
     <<"a", "@">> \o Repeat("a", MaxLabelLength) \o <<".">>
         \o Repeat("b", MaxLabelLength) \o <<".">>
         \o Repeat("c", MaxLabelLength) \o <<".">>
         \o Repeat("d", MaxLabelLength - 5),
     <<"a", "@">> \o Repeat("a", MaxLabelLength) \o <<".">>
         \o Repeat("b", MaxLabelLength) \o <<".">>
         \o Repeat("c", MaxLabelLength) \o <<".">>
         \o Repeat("d", MaxLabelLength - 1)}

\* what isValidEmail is handed: a string, or a value that is none
EmailInputs ==
    {[t |-> "string", chars |-> c] : c \in GeneratedEmails \cup NamedEmails}
        \cup {[t |-> "null", chars |-> <<>>], [t |-> "number", chars |-> <<>>]}

InitEmail ==
    /\ email \in EmailInputs
    /\ emailValid = NoVerdict
    /\ IdleAux
    /\ showModal = FALSE
    /\ modalConfirmCallback = NoCallback
    /\ submission = NoSubmission
    /\ IdleStorage
    /\ IdleImport
    /\ IdleIds
    /\ IdleApp

CallIsValidEmail ==
    /\ emailValid' = [done |-> TRUE, value |-> isValidEmail(email)]
    /\ UNCHANGED <<email, auxVars, showModal, modalConfirmCallback, submission,
                   storageVars, importVars, idVars, appVars>>

NextEmail == CallIsValidEmail

SpecEmail == InitEmail /\ [][NextEmail]_vars

\* the positions of a character in a string
Positions(chars, c) == {i \in 1..Len(chars) : chars[i] = c}

\* the parts of a string with exactly one @
LocalOf(chars) ==
    SubSeq(chars, 1, (CHOOSE i \in Positions(chars, "@") : TRUE) - 1)
DomainOf(chars) ==
    SubSeq(chars, (CHOOSE i \in Positions(chars, "@") : TRUE) + 1, Len(chars))

\* the position of the last dot of a domain that has one
LastDot(domain) ==
    CHOOSE i \in Positions(domain, ".") : \A j \in Positions(domain, ".") : j <= i

\* the local part is non-empty, holds a letter, neither starts nor ends with
\* a dot and has no two dots in a row
LocalPartWellFormed(local) ==
    /\ local # <<>>
    /\ \E i \in 1..Len(local) : local[i] \in Letters
    /\ local[1] # "." /\ local[Len(local)] # "."
    /\ \A i \in 1..(Len(local) - 1) : ~(local[i] = "." /\ local[i + 1] = ".")

\* the domain has a dot, no label of it starts or ends with a hyphen, and
\* its final label is made of two letters or more
DomainWellFormed(domain) ==
    /\ Positions(domain, ".") # {}
    /\ domain[1] # "-" /\ domain[Len(domain)] # "-"
    /\ \A i \in Positions(domain, ".") :
           /\ i > 1 => domain[i - 1] # "-"
           /\ i < Len(domain) => domain[i + 1] # "-"
    /\ Len(domain) - LastDot(domain) >= MinTldLength
    /\ \A j \in (LastDot(domain) + 1)..Len(domain) : domain[j] \in Letters

\* an address local@domain.tld made of the characters an address may hold,
\* within the length limits and without an empty label
ValidAddress(chars) ==
    /\ Len(chars) <= MaxEmailLength
    /\ Cardinality(Positions(chars, "@")) = 1
    /\ LET local == LocalOf(chars)
           domain == DomainOf(chars)
       IN  /\ Len(local) <= MaxLocalLength
           /\ AllIn(local, LocalChars)
           /\ LocalPartWellFormed(local)
           /\ AllIn(domain, Alnum \cup {"-", "."})
           /\ domain # <<>>
           /\ domain[1] # "." /\ domain[Len(domain)] # "."
           /\ ~HasConsecutiveDots(domain)
           /\ \A i \in 1..(Len(domain) - MaxLabelLength) :
                  \E j \in i..(i + MaxLabelLength) : domain[j] = "."
           /\ DomainWellFormed(domain)

\* C16: isValidEmail returns true for every valid address local@domain.tld
\* whose local part holds a letter and whose tld is two alphabetic
\* characters or more; it rejects 12@gmail.com and a..b@x.com.
C16_ValidAddressesPass ==
    emailValid.done =>
        /\ (email.t = "string" /\ ValidAddress(Trim(email.chars)))
               => emailValid.value
        /\ email.chars \in {TwelveAtGmail, DoubleDotLocal} => ~emailValid.value

\* C16 witness: an address whose local part is as long as the limit allows
\* was accepted
C16_Witness ==
    /\ emailValid.done
    /\ emailValid.value
    /\ ValidAddress(Trim(email.chars))
    /\ Len(LocalOf(Trim(email.chars))) = MaxLocalLength

\* C17: isValidEmail returns true only for a string that, trimmed, holds
\* exactly one @, has a non-empty local part with a letter that neither
\* starts nor ends with a dot and has no consecutive dots, and has a domain
\* with a dot, no label starting or ending with a hyphen and a final label
\* of two letters or more.
C17_AcceptedAddressesAreWellFormed ==
    (emailValid.done /\ emailValid.value) =>
        /\ email.t = "string"
        /\ Cardinality(Positions(Trim(email.chars), "@")) = 1
        /\ LocalPartWellFormed(LocalOf(Trim(email.chars)))
        /\ DomainWellFormed(DomainOf(Trim(email.chars)))

\* C17 witness: an address typed with white space around it and a hyphen
\* inside a label was accepted
C17_Witness ==
    /\ emailValid.done
    /\ emailValid.value
    /\ \/ Trim(email.chars) # email.chars
       \/ Positions(DomainOf(Trim(email.chars)), "-") # {}

-----------------------------------------------------------------------------
(* The notifications of the state container.  state.js is not part of the   *)
(* sources: setState and reset follow the specification of the container,   *)
(* the subscribers and handleSearch follow ui.js.                           *)

\* bound: the queries typed into the search box
Queries == {"", "a", "b", "ab"}

\* the slices of the model in the order the subscribers are registered
SliceKeys == <<"tasks", "searchQuery", "caseSensitive">>

\* the slices setupStateListeners subscribes to
Subscribed == {"tasks", "searchQuery"}

DefaultSearchState == [searchQuery |-> "", caseSensitive |-> FALSE]

\* a notification: the keys whose subscribers are still to be called, and
\* the key whose subscriber is executing
Frame(keys) == [keys |-> keys, running |-> "none"]

\* the keys of a partial state whose value differs from the slice
ChangedKeys(state, partial) ==
    SelectSeq(<<"searchQuery", "caseSensitive">>, LAMBDA k : state[k] # partial[k])

\* a container that notifies synchronously, whatever is in progress
setStateReentrant(n, partial) ==
    LET changed == ChangedKeys(n.state, partial)
        merged == [n EXCEPT !.state = partial]
    IN  IF changed = <<>> THEN merged
        ELSE [merged EXCEPT !.stack = <<Frame(changed)>> \o @]

\* setState(partial): merge the keys, notify the subscribers of the changed
\* keys; a notification triggered while another is in progress is queued
setState(n, partial) ==
    LET changed == ChangedKeys(n.state, partial)
        merged == [n EXCEPT !.state = partial]
    IN  IF changed = <<>> THEN merged
        ELSE IF n.stack # <<>> THEN [merged EXCEPT !.queue = Append(@, changed)]
        ELSE [merged EXCEPT !.stack = <<Frame(changed)>>]

\* reset(): restore the default state and notify all subscribers
reset(n) ==
    IF n.stack # <<>>
    THEN [n EXCEPT !.state = DefaultSearchState, !.queue = Append(@, SliceKeys)]
    ELSE [n EXCEPT !.state = DefaultSearchState, !.stack = <<Frame(SliceKeys)>>]

\* a handleSearch that sets the slices whether they differ or not
handleSearchUnguarded(n, query) ==
    setState([n EXCEPT !.trace = Append(@, 1)],
             [searchQuery |-> query, caseSensitive |-> n.checkbox])

\* handleSearch(query), up to its return from setState: the slices are set
\* only if the query or the checkbox differs from them.  trace keeps, for
\* each handleSearch call the last event led to, its number of setState
\* calls
handleSearch(n, query) ==
    IF n.state.searchQuery # query \/ n.state.caseSensitive # n.checkbox
    THEN setState([n EXCEPT !.trace = Append(@, 1)],
                  [searchQuery |-> query, caseSensitive |-> n.checkbox])
    ELSE [n EXCEPT !.trace = Append(@, 0)]

\* everything but the notifier
besidesNotifier ==
    <<email, emailValid, toast, emailField, emailError, cap, confirmClicks, viewed, markup, search, showModal,
      modalConfirmCallback, submission, storageVars, importVars, idVars,
      appVars>>

InitNotify ==
    /\ IdleStorage
    /\ IdleImport
    /\ IdleIds
    /\ IdleApp
    /\ IdleView

\* the input event of the search box
TypeQuery ==
    /\ notifier.stack = <<>>
    /\ \E q \in Queries :
           notifier' = handleSearch([notifier EXCEPT !.input = q, !.trace = <<>>], q)
    /\ UNCHANGED besidesNotifier

\* the change event of the case sensitive checkbox
ToggleCaseSensitive ==
    /\ notifier.stack = <<>>
    /\ notifier' = handleSearch([notifier EXCEPT !.checkbox = ~@, !.trace = <<>>],
                                notifier.input)
    /\ UNCHANGED besidesNotifier

\* the click on the clear search button
ClickClearSearch ==
    /\ notifier.stack = <<>>
    /\ notifier' = handleSearch([notifier EXCEPT !.input = "", !.trace = <<>>], "")
    /\ UNCHANGED besidesNotifier

\* stateManager.reset() of handleClearData and of the developer helper
ResetState ==
    /\ notifier.stack = <<>>
    /\ notifier' = reset([notifier EXCEPT !.trace = <<>>])
    /\ UNCHANGED besidesNotifier

\* the notification in progress calls the subscriber of its next key; the
\* subscriber of searchQuery is handleSearch
CallSubscriber ==
    /\ notifier.stack # <<>>
    /\ notifier.stack[1].running = "none"
    /\ notifier.stack[1].keys # <<>>
    /\ LET k == Head(notifier.stack[1].keys)
           started == [notifier EXCEPT !.stack[1].running = k]
       IN  notifier' =
               IF k \notin Subscribed
               THEN [notifier EXCEPT !.stack[1].keys = Tail(@)]
               ELSE IF k = "searchQuery"
               THEN handleSearch(started, started.state.searchQuery)
               ELSE started
    /\ UNCHANGED besidesNotifier

\* the subscriber that is executing returns
ReturnFromSubscriber ==
    /\ notifier.stack # <<>>
    /\ notifier.stack[1].running # "none"
    /\ notifier' = [notifier EXCEPT !.stack[1].running = "none",
                                    !.stack[1].keys = Tail(@)]
    /\ UNCHANGED besidesNotifier

\* the notification in progress has called every subscriber: it ends, and
\* the oldest queued notification starts once none is in progress
FinishNotification ==
    /\ notifier.stack # <<>>
    /\ notifier.stack[1].running = "none"
    /\ notifier.stack[1].keys = <<>>
    /\ notifier' =
           IF Tail(notifier.stack) = <<>> /\ notifier.queue # <<>>
           THEN [notifier EXCEPT !.stack = <<Frame(Head(notifier.queue))>>,
                                 !.queue = Tail(@)]
           ELSE [notifier EXCEPT !.stack = Tail(@)]
    /\ UNCHANGED besidesNotifier

NextNotify ==
    \/ TypeQuery
    \/ ToggleCaseSensitive
    \/ ClickClearSearch
    \/ ResetState
    \/ CallSubscriber
    \/ ReturnFromSubscriber
    \/ FinishNotification

SpecNotify == InitNotify /\ [][NextNotify]_vars

-----------------------------------------------------------------------------
(* The rendering methods of the view and the task collection they read.    *)

StampOld == Str("2025-01-05T09:00:00.000Z")
StampNew == Str("2025-02-07T09:00:00.000Z")

\* new Date(value).getTime() for the stamps of the model, as a rank in
\* time; 0 stands for NaN, the time of an Invalid Date
DateTime(v) ==
    CASE v = StampOld -> 1
      [] v = StampNew -> 2
      [] v = Timestamp -> 3
      [] OTHER -> 0

\* the comparator of updateRecentTasks returns a negative number: a was
\* created after b.  It returns NaN when a date is invalid, which sort
\* reads as 0
CreatedAfter(a, b) ==
    /\ DateTime(a.f["createdAt"]) # 0
    /\ DateTime(b.f["createdAt"]) # 0
    /\ DateTime(a.f["createdAt"]) > DateTime(b.f["createdAt"])

RECURSIVE InsertByCreatedAt(_, _)
InsertByCreatedAt(x, sorted) ==
    IF sorted = <<>> \/ ~CreatedAfter(Head(sorted), x)
    THEN <<x>> \o sorted
    ELSE <<Head(sorted)>> \o InsertByCreatedAt(x, Tail(sorted))

\* what a rendering method that sorts nothing in place leaves of the array
KeptInPlace(list) == list

\* Array.prototype.sort with the comparator of updateRecentTasks: stable,
\* newest first, in place
RECURSIVE SortedInPlace(_)
SortedInPlace(list) ==
    IF list = <<>> THEN <<>>
    ELSE InsertByCreatedAt(Head(list), SortedInPlace(Tail(list)))

\* a task as the container holds it after addTask or importData kept it
Created(task, stamp) == Obj([task.f EXCEPT !["createdAt"] = stamp])

\* bound: the collections the container holds when the view renders
ViewLists ==
    {<<>>,
     <<Created(TaskA, StampOld)>>,
     <<Created(TaskA, StampOld), Created(TaskB, StampNew)>>,
     <<Created(TaskA, StampNew), Created(TaskB, StampOld)>>,
     <<Created(TaskA, StampOld), Created(TaskB, StampOld)>>,
     <<Created(TaskA, StampOld), TaskB>>,
     <<TaskB, Created(SeedTask, StampNew)>>}

\* state.js is not part of the sources: getState('tasks') hands out the
\* array the container holds, or a copy of it
GetStateResults == {"held", "copy"}

besidesView ==
    <<email, emailValid, toast, emailField, emailError, cap, confirmClicks, notifier, markup, search, showModal,
      modalConfirmCallback, submission, storageVars, importVars, idVars,
      settings, editingTaskId, message>>

InitView ==
    /\ tasks \in ViewLists
    /\ settings = DefaultSettings
    /\ editingTaskId = Null
    /\ message = "none"
    /\ IdleView
    /\ IdleStorage
    /\ IdleImport
    /\ IdleIds

\* renderTasks(): filterTasks, Array.prototype.filter and sortTasks derive
\* new arrays from the one getState returned
RenderTasks ==
    /\ viewed' = [method |-> "renderTasks", got |-> tasks,
                  left |-> KeptInPlace(tasks)]
    /\ UNCHANGED <<tasks, besidesView>>

\* updateTagFilter(): map builds a new array, which is the one sorted
UpdateTagFilter ==
    /\ viewed' = [method |-> "updateTagFilter", got |-> tasks,
                  left |-> KeptInPlace(tasks)]
    /\ UNCHANGED <<tasks, besidesView>>

\* updateRecentTasks(): tasks.sort(...) sorts the array getState returned
UpdateRecentTasks ==
    \E kind \in GetStateResults :
        /\ viewed' = [method |-> "updateRecentTasks", got |-> tasks,
                      left |-> SortedInPlace(tasks)]
        /\ tasks' = IF kind = "held" THEN SortedInPlace(tasks) ELSE tasks
        /\ UNCHANGED besidesView

\* the change event of a completion checkbox: the view dispatches
\* taskActions.updateTask(taskId, { completed: checked })
ToggleComplete ==
    \E i \in 1..Len(tasks), checked \in BOOLEAN :
        /\ tasks' = updateTask(tasks, tasks[i].f["id"],
                               [NoFields EXCEPT !["completed"] = Bool(checked)])
        /\ UNCHANGED <<viewed, besidesView>>

NextView ==
    \/ RenderTasks
    \/ UpdateTagFilter
    \/ UpdateRecentTasks
    \/ ToggleComplete

SpecView == InitView /\ [][NextView]_vars

\* C19: the view never mutates the task collection directly: a method that
\* only renders (renderTasks, updateRecentTasks, updateTagFilter) leaves the
\* collection of the container, and the array getState('tasks') returned to
\* it, with the contents and in the order it found them.
C19_RenderingLeavesTasksUnchanged ==
    [][(RenderTasks \/ UpdateRecentTasks \/ UpdateTagFilter)
           => (tasks' = tasks /\ viewed'.left = viewed'.got)]_vars

-----------------------------------------------------------------------------
(* The markup the rendering methods assign to innerHTML.  A text is the    *)
(* sequence of its characters.                                             *)

\* what the serialisation of a text node writes for one character: the
\* ampersand and the angle brackets become entities, a quote stays
EscapedChar(c) ==
    CASE c = "&" -> <<"&", "a", "m", "p", ";">>
      [] c = "<" -> <<"&", "l", "t", ";">>
      [] c = ">" -> <<"&", "g", "t", ";">>
      [] OTHER -> <<c>>

\* escapeHtml(text): div.textContent = text; return div.innerHTML
RECURSIVE escapeHtml(_)
escapeHtml(text) ==
    IF text = <<>> THEN <<>>
    ELSE EscapedChar(Head(text)) \o escapeHtml(Tail(text))

\* ${task.field} in a template literal
Raw(task, field) == [field |-> field, text |-> task[field]]

\* ${this.escapeHtml(task.field)} in a template literal
Escaped(task, field) == [field |-> field, text |-> escapeHtml(task[field])]

\* bound: the texts a form or an imported file gives to a task field
FieldTexts == {<<"a">>, <<"<", "b", ">">>, <<"x", "&", "y">>}

\* the fields of a task that come from the user
UserFields == {"id", "title", "tag", "description"}

\* the description is optional: the empty text is falsy
HtmlTasks ==
    {[id |-> i, title |-> t, tag |-> g, description |-> d] :
        i \in FieldTexts, t \in FieldTexts, g \in FieldTexts,
        d \in {<<>>, <<"<", "b", ">">>}}

besidesMarkup ==
    <<email, emailValid, toast, emailField, emailError, cap, confirmClicks, notifier, viewed, search, showModal,
      modalConfirmCallback, submission, storageVars, importVars, idVars,
      appVars>>

InitHtml == InitApp

\* createTaskCard(task), whose result renderTasksGrid assigns to innerHTML
CreateTaskCard ==
    \E task \in HtmlTasks :
        /\ markup' =
               [method |-> "createTaskCard", task |-> task,
                parts |-> <<Raw(task, "id"), Escaped(task, "title"),
                            Raw(task, "id"), Escaped(task, "tag")>>
                          \o IF task.description # <<>>
                             THEN <<Escaped(task, "description")>>
                             ELSE <<>>]
        /\ UNCHANGED besidesMarkup

\* renderSearchResultsList(tasks), for one task of the list
RenderSearchResultsList ==
    \E task \in HtmlTasks :
        /\ markup' =
               [method |-> "renderSearchResultsList", task |-> task,
                parts |-> <<Raw(task, "id"), Escaped(task, "title"),
                            Escaped(task, "tag"), Raw(task, "id")>>]
        /\ UNCHANGED besidesMarkup

\* updateRecentTasks(), for one task of the list
RenderRecentTask ==
    \E task \in HtmlTasks :
        /\ markup' =
               [method |-> "updateRecentTasks", task |-> task,
                parts |-> <<Escaped(task, "title"), Raw(task, "tag")>>]
        /\ UNCHANGED besidesMarkup

\* updateTagFilter(), for the tag of one task: the value and the label of
\* its option
RenderTagOption ==
    \E task \in HtmlTasks :
        /\ markup' =
               [method |-> "updateTagFilter", task |-> task,
                parts |-> <<Escaped(task, "tag"), Escaped(task, "tag")>>]
        /\ UNCHANGED besidesMarkup

\* showUndoToast(task)
ShowUndoToast ==
    \E task \in HtmlTasks :
        /\ markup' =
               [method |-> "showUndoToast", task |-> task,
                parts |-> <<Escaped(task, "title")>>]
        /\ UNCHANGED besidesMarkup

NextHtml ==
    \/ CreateTaskCard
    \/ RenderSearchResultsList
    \/ RenderRecentTask
    \/ RenderTagOption
    \/ ShowUndoToast

SpecHtml == InitHtml /\ [][NextHtml]_vars

\* C20: every task field that comes from user input or from an imported
\* file (id, title, tag, description) passes through escapeHtml before it
\* is put into markup assigned to innerHTML, in every rendering method.
C20_UserFieldsAreEscaped ==
    \A i \in 1..Len(markup.parts) :
        markup.parts[i].field \in UserFields
            => markup.parts[i].text = escapeHtml(markup.task[markup.parts[i].field])

-----------------------------------------------------------------------------
(* Search and the task grid.  search.js is not part of the sources:        *)
(* searchTasks and filterTasks follow section 4.2 of the specification,    *)
(* handleSearch, handleFilter and renderTasks follow ui.js.                *)

\* bound: the queries typed; each is a whole title or tag of a task of the
\* model, or occurs in none
SearchQueries == {"", "Essay", "Lab", "zzz"}

\* bound: the tags chosen in the tag filter; "" is All Tags
FilterTags == {"", "Lab", "Homework"}

\* bound: the tasks the user adds while the page is open
AddedTasks == {TaskA, TaskB, TaskADup}

\* the query occurs in the title, the tag or the description of the task
Matches(q, task) ==
    \E k \in {"title", "tag", "description"} : task.f[k] = Str(q)

\* searchManager.searchTasks(query, tasks): the empty query returns the
\* full collection, another one the tasks it matches
searchTasks(q, list) ==
    IF q = "" THEN list ELSE SelectSeq(list, LAMBDA t : Matches(q, t))

\* filterTasks(tasks, activeFilters)
filterTasks(list, tag) ==
    IF tag = "" THEN list ELSE SelectSeq(list, LAMBDA t : t.f["tag"] = Str(tag))

\* renderTasks(): the filtered tasks, narrowed to the ids of
\* currentSearchResults if that array is not empty; sortTasks orders them
renderTasks(list, tag, results) ==
    IF Len(results) > 0
    THEN SelectSeq(filterTasks(list, tag),
                   LAMBDA t : \E i \in 1..Len(results) : results[i].f["id"] = t.f["id"])
    ELSE filterTasks(list, tag)

besidesSearch ==
    <<email, emailValid, toast, emailField, emailError, cap, confirmClicks, notifier, viewed, markup, showModal,
      modalConfirmCallback, submission, storageVars, importVars, idVars,
      settings, editingTaskId, message>>

InitSearch == InitApp

\* handleSearch(query) of the search box, the search button and the clear
\* search button
SearchFor ==
    \E q \in SearchQueries :
        LET results == searchTasks(q, tasks)
        IN  /\ search' = [search EXCEPT !.query = q,
                                        !.results = results,
                                        !.count = Len(results),
                                        !.grid = renderTasks(tasks, search.tag, results)]
            /\ UNCHANGED <<tasks, besidesSearch>>

\* handleFilter(tag)
HandleFilter ==
    \E tag \in FilterTags :
        /\ search' = [search EXCEPT !.tag = tag,
                                    !.grid = renderTasks(tasks, tag, search.results)]
        /\ UNCHANGED <<tasks, besidesSearch>>

\* taskActions.addTask(task) changes the tasks slice, whose subscriber
\* calls renderTasks
TaskAdded ==
    \E task \in AddedTasks :
        /\ Len(tasks) < MaxListed
        /\ tasks' = Append(tasks, task)
        /\ search' = [search EXCEPT
                          !.grid = renderTasks(tasks', search.tag, search.results)]
        /\ UNCHANGED besidesSearch

\* taskActions.deleteTask(id), with the same subscriber
TaskDeleted ==
    \E i \in 1..Len(tasks) :
        /\ tasks' = SelectSeq(tasks, LAMBDA t : t.f["id"] # tasks[i].f["id"])
        /\ search' = [search EXCEPT
                          !.grid = renderTasks(tasks', search.tag, search.results)]
        /\ UNCHANGED besidesSearch

NextSearch ==
    \/ SearchFor
    \/ HandleFilter
    \/ TaskAdded
    \/ TaskDeleted

SpecSearch == InitSearch /\ [][NextSearch]_vars

\* C21: after handleSearch(q) with a non-empty query the grid holds exactly
\* the tasks that are in the search results for q and pass the tag filter;
\* it is empty when nothing matches, as the count of 0 results says.
C21_GridShowsSearchResults ==
    [][(SearchFor /\ search'.query # "")
           => /\ search'.grid =
                     filterTasks(searchTasks(search'.query, tasks), search'.tag)
              /\ search'.count = 0 => search'.grid = <<>>]_vars

\* C22: while the query is empty and no tag filter is active, the grid
\* rendered after a change of the tasks slice holds every task of the
\* collection, also one added after an earlier handleSearch call.
C22_GridFollowsTheCollection ==
    [][((TaskAdded \/ TaskDeleted) /\ search.query = "" /\ search.tag = "")
           => search'.grid = tasks']_vars

\* C23: handleSearch ends without unbounded re-entrant notification: the
\* handleSearch call of an event leads to at most one further handleSearch
\* call, through the searchQuery subscription, and that call calls setState
\* zero times; no more than one notification ever waits.
C23_HandleSearchTerminates ==
    /\ Len(notifier.trace) <= 2
    /\ Len(notifier.trace) = 2 => notifier.trace[2] = 0
    /\ Len(notifier.queue) <= 1

\* C23 witness: a handleSearch call that set the slices was followed by the
\* call of the subscriber, and the notification has ended
C23_Witness ==
    /\ notifier.trace = <<1, 0>>
    /\ notifier.stack = <<>>

-----------------------------------------------------------------------------
(* The confirm button of the confirmation modal *)

\* bound: the activations of the confirm button the model counts
MaxClicks == 2

besidesClicks ==
    <<email, emailValid, toast, emailField, emailError, cap, notifier, viewed, markup, search, showModal,
      modalConfirmCallback, submission, storageVars, importVars, idVars,
      appVars>>

\* a click on #modal-confirm while the modal is open.  bindModalEvents
\* gives the button no listener; the click bubbles to the listener of the
\* modal, whose test of e.target fails for the button, so nothing is
\* dispatched and modalConfirmCallback is not called
ClickModalConfirm ==
    /\ showModal
    /\ confirmClicks < MaxClicks
    /\ confirmClicks' = confirmClicks + 1
    /\ UNCHANGED besidesClicks

NextConfirm ==
    \/ HandleImportData
    \/ ClickDeleteButton
    \/ ClickClearDataButton
    \/ ClickModalCancel
    \/ ClickModalConfirm

SpecConfirm == InitApp /\ [][NextConfirm]_vars

\* C24: when the modal is open and the user activates its confirm button,
\* the callback stored by the latest showConfirmationModal call runs once
\* and the modal closes; for a delete the task whose button was clicked,
\* and no other, leaves the collection.
C24_ConfirmRunsTheCallback ==
    [][ClickModalConfirm =>
           /\ ~showModal'
           /\ modalConfirmCallback.kind = "delete" =>
                  tasks' = SelectSeq(tasks, LAMBDA e : e.f["id"] # modalConfirmCallback.id)]_vars

-----------------------------------------------------------------------------
(* The weekly cap: the update-cap button, the settings controls, imports   *)
(* of settings, and the cap input updateSettingsForm writes.               *)

\* bound: the texts typed into the cap input
CapTexts == {"25", "0", "-5", "abc", "", "12abc", "Infinity"}

\* parseFloat(text) for the texts of the model: the longest numeric prefix,
\* NaN where there is none
parseFloat(text) ==
    CASE text = "25" -> Num(25)
      [] text = "0" -> Num(0)
      [] text = "-5" -> Num(-5)
      [] text = "12abc" -> Num(12)
      [] text = "40" -> Num(40)
      [] text = "Infinity" -> Infinity
      [] OTHER -> NaN

\* String(value), as the assignment to input.value converts it
TextOf(v) ==
    CASE v = Num(25) -> "25"
      [] v = Num(0) -> "0"
      [] v = Num(-5) -> "-5"
      [] v = Num(12) -> "12"
      [] v = Num(40) -> "40"
      [] v = Infinity -> "Infinity"
      [] v = NaN -> "NaN"
      [] v.t = "string" -> v.s
      [] OTHER -> v.t

\* !isNaN(val) && val >= 0
CapAccepted(val) == val # NaN /\ ~LessThanZero(val)

\* a value the || operator passes over
Falsy(v) == v \in {Undefined, Null, NaN, Num(0), Str(""), Bool(FALSE)}

\* updateSettingsForm(settings): capInput.value = settings.durationCap || 40
CapField(value) ==
    IF Falsy(value.f["durationCap"]) THEN TextOf(Num(40))
    ELSE TextOf(value.f["durationCap"])

\* settingsActions.updateSettings(partial): the keys given are merged into
\* the settings slice
updateSettings(value, key, v) == SettingsObj([value.f EXCEPT ![key] = v])

\* bound: the files imported, with the settings they carry
CapFiles ==
    {ImportedFile(<<TaskA>>, SettingsOther("undefined")),
     ImportedFile(<<>>, CapOnlySettings),
     ImportedFile(<<>>, updateSettings(DefaultSettings, "durationCap", Num(25))),
     ImportedFile(<<>>, updateSettings(DefaultSettings, "durationCap", Num(-5))),
     ImportedFile(<<>>, updateSettings(DefaultSettings, "durationCap", Str("lots"))),
     ImportedFile(<<>>, SettingsObj([NoSettingsFields EXCEPT !["timeUnit"] = Str("minutes")]))}

besidesCap ==
    <<email, emailValid, toast, emailField, emailError, confirmClicks, notifier, viewed, markup, search,
      showModal, modalConfirmCallback, submission, storageVars, importVars,
      idVars, tasks, editingTaskId>>

\* the click listener of the update-cap button, for a text typed into the
\* cap input; the settings subscriber calls updateSettingsForm
ClickUpdateCap ==
    \E text \in CapTexts :
        LET val == parseFloat(text)
        IN  IF CapAccepted(val)
            THEN /\ settings' = updateSettings(settings, "durationCap", val)
                 /\ cap' = [typed |-> text, shown |-> CapField(settings')]
                 /\ UNCHANGED <<message, besidesCap>>
            ELSE /\ message' = "error"
                 /\ cap' = [typed |-> text, shown |-> text]
                 /\ UNCHANGED <<settings, besidesCap>>

\* the change listener of the time unit select
ChangeTimeUnit ==
    \E unit \in {"hours", "minutes"} :
        /\ settings' = updateSettings(settings, "timeUnit", Str(unit))
        /\ cap' = [cap EXCEPT !.shown = CapField(settings')]
        /\ UNCHANGED <<message, besidesCap>>

\* handleImportData(file), and updateSettingsForm for the settings slice
\* it sets
ImportCapFile ==
    /\ HandleImportDataOf(CapFiles)
    /\ cap' = [cap EXCEPT !.shown = CapField(settings')]
    /\ UNCHANGED <<confirmClicks, notifier, viewed, markup, search>>

NextCap ==
    \/ ClickUpdateCap
    \/ ChangeTimeUnit
    \/ ImportCapFile

SpecCap == InitApp /\ [][NextCap]_vars

\* the value is a number that is not negative
NonNegativeNumber(v) == TypeOf(v) = "number" /\ v # NaN /\ ~LessThanZero(v)

\* C25: after any sequence of update-cap clicks, settings changes and
\* imports, settings.durationCap is a non-negative number; an update-cap
\* click whose input parses to NaN or to a negative number leaves the
\* settings unchanged and sets the error message.
C25_CapStaysNonNegative ==
    /\ [](NonNegativeNumber(settings.f["durationCap"]))
    /\ [][(ClickUpdateCap /\ ~CapAccepted(parseFloat(cap'.typed)))
              => (settings' = settings /\ message' = "error")]_vars

\* C30: after an update-cap click with a valid value v (any number v >= 0,
\* 0 included), settings.durationCap equals v and the cap input written by
\* updateSettingsForm shows v.
C30_CapInputShowsTheCap ==
    [][(ClickUpdateCap /\ CapAccepted(parseFloat(cap'.typed)))
           => /\ settings'.f["durationCap"] = parseFloat(cap'.typed)
              /\ cap'.shown = TextOf(parseFloat(cap'.typed))]_vars

-----------------------------------------------------------------------------
(* getEmailValidationError: the message for an address, or null *)

\* the last test of getEmailValidationError left out
FinalCheckSkipped(chars) == "null"

\* if (!isValidEmail(email)) return ...; return null
FinalCheck(chars) ==
    IF ~isValidEmail([t |-> "string", chars |-> chars])
    THEN "Please enter a valid email address"
    ELSE "null"

\* the tests on the two parts of an address with one @
PartsError(chars, localPart, domain) ==
    LET domainLabels == SplitOn(domain, ".")
        tld == domainLabels[Len(domainLabels)]
    IN  IF localPart = <<>>
        THEN "Email address must have at least one character before @"
        ELSE IF LocalPartLacksLetter(localPart)
        THEN "Username must contain at least one letter"
        ELSE IF LocalPartTooLong(localPart)
        THEN "Local part is too long (maximum 64 characters)"
        ELSE IF StartsWith(localPart, ".") \/ EndsWith(localPart, ".")
        THEN "Local part cannot start or end with a dot"
        ELSE IF HasConsecutiveDots(localPart)
        THEN "Local part cannot contain consecutive dots"
        ELSE IF domain = <<>>
        THEN "Email address must have a domain after @"
        ELSE IF \A i \in 1..Len(domain) : domain[i] # "."
        THEN "Domain must contain at least one dot"
        ELSE IF StartsWith(domain, ".") \/ EndsWith(domain, ".")
        THEN "Domain cannot start or end with a dot"
        ELSE IF StartsWith(domain, "-") \/ EndsWith(domain, "-")
        THEN "Domain cannot start or end with a hyphen"
        ELSE IF Len(tld) < MinTldLength
        THEN "Top-level domain must be at least 2 characters"
        ELSE IF ~AllIn(tld, Letters)
        THEN "Top-level domain must contain only letters"
        ELSE FinalCheck(chars)

\* getEmailValidationError(email) for a value of any type: "null" stands
\* for null
getEmailValidationError(value) ==
    IF value.t # "string" \/ value.chars = <<>>
    THEN "Email address is required"
    ELSE LET trimmed == Trim(value.chars)
             parts == SplitOn(trimmed, "@")
         IN  IF Len(trimmed) = 0
             THEN "Email address is required"
             ELSE IF Len(trimmed) > MaxEmailLength
             THEN "Email address is too long (maximum 254 characters)"
             ELSE IF Len(parts) = 1
             THEN "Email address must contain @ symbol"
             ELSE IF Len(parts) > 2
             THEN "Email address can only contain one @ symbol"
             ELSE PartsError(trimmed, parts[1], parts[2])

besidesEmailError ==
    <<email, emailValid, toast, emailField, cap, confirmClicks, notifier, viewed, markup, search,
      showModal, modalConfirmCallback, submission, storageVars, importVars,
      idVars, appVars>>

CallGetEmailValidationError ==
    /\ emailError' = [done |-> TRUE, message |-> getEmailValidationError(email)]
    /\ UNCHANGED besidesEmailError

NextEmailError ==
    \/ CallIsValidEmail
    \/ CallGetEmailValidationError

SpecEmailError == InitEmail /\ [][NextEmailError]_vars

\* C26: getEmailValidationError agrees with isValidEmail on every input:
\* it returns null exactly when isValidEmail returns true, and a message
\* exactly when isValidEmail returns false.
C26_ErrorAgreesWithValidity ==
    (emailValid.done /\ emailError.done)
        => (emailError.message = "null" <=> emailValid.value)

\* C26 witness: an address passed every named test of
\* getEmailValidationError and was turned down by its final isValidEmail
\* call, and isValidEmail returned false for it
C26_Witness ==
    /\ emailValid.done
    /\ ~emailValid.value
    /\ emailError.done
    /\ emailError.message = "Please enter a valid email address"

-----------------------------------------------------------------------------
(* The email field set up by setupEmailValidation *)

\* bound: the length of the domains typed into the field
MaxFieldDomain == 3

\* bound: the values an input event finds in the field
TypedValues ==
    NamedEmails \cup {<<>>}
        \cup {l \o <<"@">> \o d :
                 l \in SeqsUpTo({"a", "1", "."}, 1),
                 d \in SeqsUpTo({"a", "A", "1", ".", " "}, MaxFieldDomain)}

\* String.prototype.toLowerCase on one character of the model
LowerOf(c) == CASE c = "A" -> "a" [] c = "Z" -> "z" [] OTHER -> c

\* sanitizeEmail(email) for a string: trimmed, in lower case, without the
\* characters an address may not hold
sanitizeEmail(chars) ==
    LET lower == [i \in 1..Len(Trim(chars)) |-> LowerOf(Trim(chars)[i])]
    IN  SelectSeq(lower, LAMBDA c : c \in LocalChars \cup {"@"})

\* validateEmailInput(inputElement, errorElement): the class and the error
\* text it sets for the value of the field
validateEmailInput(value) ==
    LET error == getEmailValidationError([t |-> "string", chars |-> value])
    IN  IF error # "null"
        THEN [class |-> "error", message |-> error]
        ELSE [class |-> "success", message |-> ""]

\* inputHandler: validate a value that has content, clear the state of an
\* empty one
inputHandler(value) ==
    IF Len(value) > 0 THEN validateEmailInput(value)
    ELSE [class |-> "none", message |-> ""]

besidesField ==
    <<email, emailValid, toast, emailError, cap, confirmClicks, notifier, viewed,
      markup, search, showModal, modalConfirmCallback, submission,
      storageVars, importVars, idVars, appVars>>

InitField == InitApp

\* an input event: inputHandler runs first, on the value as typed, then
\* sanitizeHandler rewrites the value
InputEvent ==
    \E typed \in TypedValues :
        /\ emailField' = [value |-> sanitizeEmail(typed),
                          class |-> inputHandler(typed).class,
                          message |-> inputHandler(typed).message]
        /\ UNCHANGED besidesField

\* a blur event: blurHandler validates a value that has content
BlurEvent ==
    /\ Len(emailField.value) > 0
    /\ emailField' = [value |-> emailField.value,
                      class |-> validateEmailInput(emailField.value).class,
                      message |-> validateEmailInput(emailField.value).message]
    /\ UNCHANGED besidesField

NextField ==
    \/ InputEvent
    \/ BlurEvent

SpecField == InitField /\ [][NextField]_vars

\* C27: after every input event on the email field, the class and the
\* error message shown are the validation result of the value left in the
\* field once sanitization has run.
C27_ShownStateIsOfTheValueLeft ==
    [][InputEvent =>
           /\ emailField'.class = inputHandler(emailField'.value).class
           /\ emailField'.message = inputHandler(emailField'.value).message]_vars

-----------------------------------------------------------------------------
(* The transient messages and their auto-hide timers.  Time is counted in  *)
(* seconds.  uiActions.clearMessages is in state.js, which is not part of  *)
(* the sources: it clears the error and the success slice.                 *)

\* the delays of showError and showSuccess, in seconds
ErrorDelay == 5
SuccessDelay == 3

\* bound: the seconds the model lets pass
MaxTime == 8

\* bound: the texts of the messages posted
MessageTexts == {"first", "second"}

\* uiActions.clearMessages(stateManager)
clearMessages(t) == [t EXCEPT !.error = NoMessage, !.success = NoMessage]

besidesToast ==
    <<email, emailValid, emailField, emailError, cap, confirmClicks, notifier,
      viewed, markup, search, showModal, modalConfirmCallback, submission,
      storageVars, importVars, idVars, appVars>>

InitToast == InitApp

\* setState({ error: text }) with a text that changes the slice: the
\* subscriber of error calls showError, which starts a timer
PostError ==
    \E text \in MessageTexts :
        /\ text # toast.error.text
        /\ toast.now + ErrorDelay <= MaxTime
        /\ toast' = [toast EXCEPT !.error = [text |-> text, at |-> toast.now],
                                  !.timers = @ \cup {toast.now + ErrorDelay}]
        /\ UNCHANGED besidesToast

\* setState({ success: text }), with showSuccess
PostSuccess ==
    \E text \in MessageTexts :
        /\ text # toast.success.text
        /\ toast.now + SuccessDelay <= MaxTime
        /\ toast' = [toast EXCEPT !.success = [text |-> text, at |-> toast.now],
                                  !.timers = @ \cup {toast.now + SuccessDelay}]
        /\ UNCHANGED besidesToast

\* a timer that is due fires: its callback calls clearMessages
TimerFires ==
    \E due \in toast.timers :
        /\ due <= toast.now
        /\ toast' = [clearMessages(toast) EXCEPT !.timers = @ \ {due}]
        /\ UNCHANGED besidesToast

\* a second passes while no timer is due
SecondPasses ==
    /\ toast.now < MaxTime
    /\ \A due \in toast.timers : due > toast.now
    /\ toast' = [toast EXCEPT !.now = @ + 1]
    /\ UNCHANGED besidesToast

NextToast ==
    \/ PostError
    \/ PostSuccess
    \/ TimerFires
    \/ SecondPasses

SpecToast == InitToast /\ [][NextToast]_vars

\* C28: each transient message stays set for its own auto-hide delay, 5 s
\* for an error and 3 s for a success: no timer clears a message before
\* the delay of that message has elapsed.
C28_MessagesStayForTheirDelay ==
    [][TimerFires =>
           /\ toast.error # NoMessage => toast.now >= toast.error.at + ErrorDelay
           /\ toast.success # NoMessage
                  => toast.now >= toast.success.at + SuccessDelay]_vars

=============================================================================
